---- MODULE Spec2Model ----
(***************************************************************************)
(* A model of forgetest's evaluation engine (EvalEngine::run in            *)
(* crates/forgetest-core/src/engine.rs): task expansion over               *)
(* models x cases x attempts, the admission semaphore, the per-task retry  *)
(* loop around provider.generate, the compile / test / clippy stages and   *)
(* the collection loop that builds the report and emits progress events;   *)
(* and of the report comparator (EvalReport::compare in report.rs).        *)
(*                                                                         *)
(* All task futures live in one FuturesUnordered that is polled by the     *)
(* run future itself, so a task advances from one await point to the next  *)
(* without interleaving with any other task; each action below is one such *)
(* step.  A task that returns is yielded by futures.next() in the same     *)
(* poll, so the collection-loop body is part of the task's last step.      *)
(***************************************************************************)
EXTENDS Integers, Sequences, FiniteSets, TLC

VARIABLES
    config,       \* EvalEngineConfig of the engine
    providers,    \* keys of EvalEngine.providers
    eval_set,     \* the cases of the EvalSet passed to run
    models,       \* the ModelSpec slice passed to run
    run_pc,       \* position of run: "idle", "polling", "returned"
    futures,      \* the task futures, in push order
    semaphore,    \* permits available in the admission semaphore
    results,      \* Vec<EvalResult> of the collection loop
    completed,    \* counter of the collection loop
    failed,       \* counter of the collection loop
    total,        \* futures.len() taken before the collection loop
    events,       \* calls made on the ProgressReporter, in order
    report,       \* the value run returns (None until it returns)
    baseline,     \* compare: the baseline report
    current,      \* compare: the report compare is called on (self)
    threshold,    \* compare: the threshold, in thousandths of a score point
    regression_report,  \* compare: the value returned (None before the call)
    call,         \* the library function called, its arguments and locals (None: none)
    ret,          \* the value that call returned (None before it returns)
    sandbox,      \* the files of a runner Sandbox and the calls made on it
    cli           \* the run command: its arguments, position and result

compare_vars == <<baseline, current, threshold, regression_report>>

aux_vars == <<call, ret, sandbox, cli>>

vars == <<config, providers, eval_set, models, run_pc, futures, semaphore,
          results, completed, failed, total, events, report,
          baseline, current, threshold, regression_report,
          call, ret, sandbox, cli>>

----------------------------------------------------------------------------
(* Bounds of the model                                                     *)

MaxParallelism == 2
MaxRetries == 1
MaxK == 2
MaxCases == 1
MaxModels == 2
MaxTasks == 2
RetryBudget == 2
MaxResults == 2

----------------------------------------------------------------------------
(* Option values: None is the empty sequence, Some(v) a one-element one.   *)

None == <<>>
Some(v) == <<v>>
IsSome(o) == o # <<>>
Unwrap(o) == o[1]

Min(a, b) == IF a <= b THEN a ELSE b

----------------------------------------------------------------------------
(* Strings that the engine inspects are sequences of atoms; an atom is a   *)
(* piece of text that the inspected needles never straddle, or one decimal *)
(* digit.                                                                  *)

DigitChar == <<"0", "1", "2", "3", "4", "5", "6", "7", "8", "9">>
IsDigit(a) == \E d \in 1..10 : DigitChar[d] = a
DigitVal(a) == (CHOOSE d \in 1..10 : DigitChar[d] = a) - 1

\* format!("{}", n) for an unsigned integer
RECURSIVE FormatU64(_)
FormatU64(n) ==
    IF n < 10 THEN <<DigitChar[n + 1]>>
    ELSE Append(FormatU64(n \div 10), DigitChar[(n % 10) + 1])

\* str::parse::<u64>: None unless the text is a non-empty run of digits
RECURSIVE DigitsValue(_)
DigitsValue(s) ==
    IF s = <<>> THEN 0
    ELSE 10 * DigitsValue(SubSeq(s, 1, Len(s) - 1)) + DigitVal(s[Len(s)])

ParseU64(s) ==
    IF s # <<>> /\ \A i \in 1..Len(s) : IsDigit(s[i])
    THEN Some(DigitsValue(s))
    ELSE None

\* str::contains for a needle that is one atom
Contains(s, needle) == \E i \in 1..Len(s) : s[i] = needle

StripPrefix(s, p) ==
    IF Len(s) >= Len(p) /\ SubSeq(s, 1, Len(p)) = p
    THEN Some(SubSeq(s, Len(p) + 1, Len(s)))
    ELSE None

StripSuffix(s, p) ==
    IF Len(s) >= Len(p) /\ SubSeq(s, Len(s) - Len(p) + 1, Len(s)) = p
    THEN Some(SubSeq(s, 1, Len(s) - Len(p)))
    ELSE None

----------------------------------------------------------------------------
(* ProviderError and its Display                                           *)

RateLimited(ms) == [variant |-> "RateLimited", retry_after_ms |-> ms]
AuthenticationFailed(msg) == [variant |-> "AuthenticationFailed", message |-> msg]
ModelNotFound(msg) == [variant |-> "ModelNotFound", message |-> msg]
ApiError(st, msg) == [variant |-> "ApiError", status |-> st, message |-> msg]
Timeout(secs) == [variant |-> "Timeout", secs |-> secs]
NetworkError(msg) == [variant |-> "NetworkError", message |-> msg]

\* #[error("...")] of each variant; a stage error displays its context text
to_string(e) ==
    CASE e.variant = "RateLimited" ->
            <<"rate limited", ", retry after ">> \o FormatU64(e.retry_after_ms) \o <<"ms">>
      [] e.variant = "AuthenticationFailed" ->
            <<"authentication", " failed: ">> \o e.message
      [] e.variant = "ModelNotFound" ->
            <<"model not found", ": ">> \o e.message
      [] e.variant = "ApiError" ->
            <<"API error (HTTP ">> \o FormatU64(e.status) \o <<"): ">> \o e.message
      [] e.variant = "Timeout" ->
            <<"request timed out after ">> \o FormatU64(e.secs) \o <<"s">>
      [] e.variant = "NetworkError" ->
            <<"network error: ">> \o e.message
      [] e.variant = "StageError" -> e.message

is_permanent(e) == e.variant \in {"AuthenticationFailed", "ModelNotFound"}

\* Parse retry-after milliseconds from a ProviderError::RateLimited message.
parse_retry_after_ms(err_msg) ==
    LET a == StripPrefix(err_msg, <<"rate limited", ", retry after ">>)
        b == IF IsSome(a) THEN StripSuffix(Unwrap(a), <<"ms">>) ELSE None
    IN  IF IsSome(b) THEN ParseU64(Unwrap(b)) ELSE None

----------------------------------------------------------------------------
(* What the collaborators can return                                       *)

BackoffCapMs == 60000

ProviderErrors ==
    { RateLimited(2000),
      AuthenticationFailed(<<"invalid x-api-key">>),
      ModelNotFound(<<"m1">>),
      ApiError(500, <<"overloaded">>),
      ApiError(407, <<"proxy ", "authentication", " required">>) }

Responses == { [extracted_code |-> "code", token_usage |-> 30] }

GenerateOutcomes ==
    { [ok |-> TRUE, response |-> r] : r \in Responses } \cup
    { [ok |-> FALSE, error |-> e] : e \in ProviderErrors }

StageError(msg) == [variant |-> "StageError", message |-> <<msg>>]

CompileOutcomes ==
    { [ok |-> TRUE, value |-> [success |-> s]] : s \in BOOLEAN } \cup
    { [ok |-> FALSE, error |-> StageError("compilation timed out")] }

TestOutcomes ==
    { [ok |-> TRUE, value |-> [passed |-> 1, failed |-> 0]],
      [ok |-> TRUE, value |-> [passed |-> 0, failed |-> 1]],
      [ok |-> FALSE, error |-> StageError("test execution timed out")] }

ClippyOutcomes ==
    { [ok |-> TRUE, value |-> [warning_count |-> 0]],
      [ok |-> FALSE, error |-> StageError("clippy timed out")] }

----------------------------------------------------------------------------
(* Inputs: engine configurations, registered providers, eval sets, models  *)

RetryDelayChoices == {1000}

\* Sequences over S of length at most n without a repeated element
DistinctSeqs(S, n) ==
    { q \in UNION { [1..k -> S] : k \in 0..n } :
        \A i, j \in DOMAIN q : i # j => q[i] # q[j] }

PassKChoices == DistinctSeqs(1..MaxK, 2)

Configs ==
    [ parallelism : 0..MaxParallelism,
      pass_k : PassKChoices,
      max_retries_per_case : 0..MaxRetries,
      retry_delay : RetryDelayChoices ]

ProviderSets == { {"anthropic"}, {"anthropic", "openai"} }

ModelSpecs ==
    { [provider |-> "anthropic", model |-> "m1"],
      [provider |-> "openai", model |-> "m1"] }

ModelLists == UNION { [1..k -> ModelSpecs] : k \in 0..MaxModels }

\* id, expectations.should_pass_tests and expectations.test_file of a case
EvalCases ==
    { [id |-> "add", should_pass_tests |-> TRUE, test_file |-> Some("tests")],
      [id |-> "fib", should_pass_tests |-> TRUE, test_file |-> None],
      [id |-> "parse", should_pass_tests |-> FALSE, test_file |-> Some("tests")] }

\* Case ids are unique within a set
EvalSets == DistinctSeqs(EvalCases, MaxCases)

RunId == 1

----------------------------------------------------------------------------
(* Task expansion (engine.rs 113-135)                                      *)

\* pass_k.iter().copied().max()
RECURSIVE IterMax(_)
IterMax(s) ==
    IF s = <<>> THEN None
    ELSE LET rest == IterMax(Tail(s))
         IN  IF IsSome(rest) /\ Unwrap(rest) >= Head(s) THEN rest ELSE Some(Head(s))

DefaultMaxK == 1

max_k_of(pass_k) ==
    LET m == IterMax(pass_k) IN IF IsSome(m) THEN Unwrap(m) ELSE DefaultMaxK

\* The state a task future is created in: nothing but its captured values.
\* gen_calls counts the task's provider.generate calls, sleeps its backoff
\* sleeps, rate_limit_retries the retries it makes after a rate-limit error
\* and generated whether a provider call of the task succeeded (history, not
\* code).
NewTask(model_spec, case, attempt) ==
    [ case |-> case,
      model |-> model_spec.model,
      provider_name |-> model_spec.provider,
      attempt |-> attempt,
      pc |-> "await_permit",
      gen_calls |-> 0,
      sleeps |-> 0,
      rate_limit_retries |-> 0,
      generated |-> FALSE,
      permit |-> FALSE,
      retry |-> 0,
      retry_delay |-> 0,
      last_error |-> None,
      response |-> None,
      compile_result |-> None,
      test_execution |-> None ]

\* for attempt in 1..=max_k
AttemptsLoop(model_spec, case, max_k) ==
    [ attempt \in 1..max_k |-> NewTask(model_spec, case, attempt) ]

\* for case in &eval_set.cases
RECURSIVE CasesLoop(_, _, _)
CasesLoop(model_spec, cases, max_k) ==
    IF cases = <<>> THEN <<>>
    ELSE AttemptsLoop(model_spec, Head(cases), max_k)
            \o CasesLoop(model_spec, Tail(cases), max_k)

\* Mutant of ProviderRegistered: a model spec is expanded whatever its provider
ProviderRegistered_Always(model_spec, provs) == TRUE

\* let Some(provider) = self.providers.get(&model_spec.provider) else continue
ProviderRegistered(model_spec, provs) == model_spec.provider \in provs

\* for model_spec in models
RECURSIVE ModelsLoop(_, _, _, _)
ModelsLoop(ms, cases, max_k, provs) ==
    IF ms = <<>> THEN <<>>
    ELSE (IF ProviderRegistered(Head(ms), provs)
          THEN CasesLoop(Head(ms), cases, max_k)
          ELSE <<>>)
            \o ModelsLoop(Tail(ms), cases, max_k, provs)

Tasks == DOMAIN futures

----------------------------------------------------------------------------
(* The report comparator (report.rs 63-129).  Scores are in thousandths.   *)

\* Score::compute(r, &Expectations::default()).overall: 0.4 compilation +
\* 0.5 tests + 0.1 lint; tests is passed / (passed + failed) of a test stage
\* that ran something, else 0; lint is 1 - 0.1 per warning (not below 0) of a
\* lint stage that ran, else 1; a result that did not compile scores 0.
Score_compute(r) ==
    LET tests == IF IsSome(r.test_execution)
                    /\ Unwrap(r.test_execution).passed + Unwrap(r.test_execution).failed > 0
                 THEN (1000 * Unwrap(r.test_execution).passed)
                        \div (Unwrap(r.test_execution).passed + Unwrap(r.test_execution).failed)
                 ELSE 0
        lint == IF IsSome(r.clippy)
                THEN (IF Unwrap(r.clippy).warning_count >= 10 THEN 0
                      ELSE 1000 - 100 * Unwrap(r.clippy).warning_count)
                ELSE 1000
    IN  IF ~r.compilation.success THEN 0
        ELSE (400 * 1000 + 500 * tests + 100 * lint) \div 1000

\* let key = (r.case_id.clone(), r.model.clone())
KeyOf(r) == <<r.case_id, r.model>>

\* Mutant of ScoreMapInsert: the score of the last attempt replaces the entry
ScoreMapInsert_LastWins(map, key, score) ==
    [ k \in DOMAIN map \cup {key} |-> IF k = key THEN score ELSE map[k] ]

\* Mutant of ScoreMapInsert: a pair's entry starts at 1.0
ScoreMapInsert_FromOne(map, key, score) ==
    LET entry == IF key \in DOMAIN map THEN map[key] ELSE 1000
    IN  [ k \in DOMAIN map \cup {key} |->
            IF k = key THEN (IF score > entry THEN score ELSE entry) ELSE map[k] ]

\* let entry = map.entry(key).or_insert(0.0); if score.overall > *entry { .. }
ScoreMapInsert(map, key, score) ==
    LET entry == IF key \in DOMAIN map THEN map[key] ELSE 0
    IN  [ k \in DOMAIN map \cup {key} |->
            IF k = key THEN (IF score > entry THEN score ELSE entry) ELSE map[k] ]

\* for r in &report.results, from an empty map
RECURSIVE ScoreMapLoop(_, _)
ScoreMapLoop(rs, map) ==
    IF rs = <<>> THEN map
    ELSE ScoreMapLoop(Tail(rs), ScoreMapInsert(map, KeyOf(Head(rs)), Score_compute(Head(rs))))

score_map(rep) == ScoreMapLoop(rep.results, [k \in {} |-> 0])

\* Mutant of IsRegression: whatever is not above the threshold is a regression
IsRegression_NotAbove(delta, th) == delta <= th

\* Mutant of IsRegression: a delta equal to minus the threshold counts
IsRegression_Inclusive(delta, th) == delta <= 0 - th

\* if delta < -threshold
IsRegression(delta, th) == delta < -th

\* Mutant of IsImprovement: a delta equal to the threshold counts
IsImprovement_Inclusive(delta, th) == delta >= th

\* else if delta > threshold
IsImprovement(delta, th) == delta > th

\* The body of `for (key, &current) in &current_scores`
CompareStep(acc, key, current_scores, baseline_scores, th) ==
    IF key \in DOMAIN baseline_scores
    THEN LET baseline_val == baseline_scores[key]
             delta == current_scores[key] - baseline_val
             entry == [ case_id |-> key[1], model |-> key[2],
                        baseline_score |-> baseline_val,
                        current_score |-> current_scores[key],
                        delta |-> delta ]
         IN  IF IsRegression(delta, th)
             THEN [acc EXCEPT !.regressions = Append(@, entry)]
             ELSE IF IsImprovement(delta, th)
             THEN [acc EXCEPT !.improvements = Append(@, entry)]
             ELSE [acc EXCEPT !.unchanged = @ + 1]
    ELSE [acc EXCEPT !.new_cases = @ + 1]

\* The loop over current_scores, in the order the map iterates its keys
RECURSIVE CompareLoop(_, _, _, _, _)
CompareLoop(order, acc, current_scores, baseline_scores, th) ==
    IF order = <<>> THEN acc
    ELSE CompareLoop(Tail(order),
                     CompareStep(acc, Head(order), current_scores, baseline_scores, th),
                     current_scores, baseline_scores, th)

\* Mutant of removed_cases: every pair of the baseline is counted
removed_cases_All(baseline_scores, current_scores) ==
    Cardinality(DOMAIN baseline_scores)

\* baseline_scores.keys().filter(|k| !current_scores.contains_key(k)).count()
removed_cases(baseline_scores, current_scores) ==
    Cardinality({ k \in DOMAIN baseline_scores : k \notin DOMAIN current_scores })

\* self.compare(baseline, threshold); order is the iteration order of the
\* HashMap current_scores, which the language leaves unspecified
compare(self, base, th, order) ==
    LET baseline_scores == score_map(base)
        current_scores == score_map(self)
        acc == CompareLoop(order,
                           [ regressions |-> <<>>, improvements |-> <<>>,
                             unchanged |-> 0, new_cases |-> 0 ],
                           current_scores, baseline_scores, th)
    IN  [ regressions |-> acc.regressions,
          improvements |-> acc.improvements,
          unchanged |-> acc.unchanged,
          new_cases |-> acc.new_cases,
          removed_cases |-> removed_cases(baseline_scores, current_scores) ]

\* The sequences that enumerate the set S once each
Orders(S) ==
    { q \in [1..Cardinality(S) -> S] : \A i, j \in 1..Cardinality(S) : i # j => q[i] # q[j] }

\* Inputs of compare: results of three (case, model) pairs with four
\* different scores (0, 500, 750 and 1000 thousandths)
CompareKeys == { <<"add", "m1">>, <<"add", "m2">>, <<"fib", "m1">> }

CompareOutcomes ==
    { [compilation |-> [success |-> FALSE], test_execution |-> None, clippy |-> None],
      [compilation |-> [success |-> TRUE],
       test_execution |-> Some([passed |-> 0, failed |-> 1]), clippy |-> None],
      [compilation |-> [success |-> TRUE],
       test_execution |-> Some([passed |-> 1, failed |-> 1]), clippy |-> None],
      [compilation |-> [success |-> TRUE],
       test_execution |-> Some([passed |-> 1, failed |-> 0]), clippy |-> None] }

CompareResults ==
    { [case_id |-> k[1], model |-> k[2], compilation |-> o.compilation,
       test_execution |-> o.test_execution, clippy |-> o.clippy] :
        k \in CompareKeys, o \in CompareOutcomes }

Reports ==
    { [results |-> rs] : rs \in UNION { [1..n -> CompareResults] : n \in 0..MaxResults } }

Thresholds == {0 - 250, 0, 250}

\* No comparison is under way
NoComparison ==
    /\ baseline = [results |-> <<>>]
    /\ current = [results |-> <<>>]
    /\ threshold = 0
    /\ regression_report = None

\* No library function has been called, no sandbox made, no command run
NoCall ==
    /\ call = None
    /\ ret = None
    /\ sandbox = None
    /\ cli = None

----------------------------------------------------------------------------
(* Initial state: the engine as EvalEngine::new leaves it                  *)

Init ==
    /\ config \in Configs
    /\ providers \in ProviderSets
    /\ eval_set = <<>>
    /\ models = <<>>
    /\ run_pc = "idle"
    /\ futures = <<>>
    /\ semaphore = 0
    /\ results = <<>>
    /\ completed = 0
    /\ failed = 0
    /\ total = 0
    /\ events = <<>>
    /\ report = None
    /\ NoComparison
    /\ NoCall

\* run, up to its first suspension at futures.next().await
Run(es, ms) ==
    /\ run_pc = "idle"
    /\ LET fs == ModelsLoop(ms, es, max_k_of(config.pass_k), providers)
       IN  /\ Len(fs) <= MaxTasks
           /\ futures' = fs
           /\ total' = Len(fs)
    /\ eval_set' = es
    /\ models' = ms
    /\ semaphore' = config.parallelism
    /\ results' = <<>>
    /\ completed' = 0
    /\ failed' = 0
    /\ run_pc' = "polling"
    /\ UNCHANGED <<compare_vars, aux_vars>> /\ UNCHANGED <<config, providers, events, report>>

----------------------------------------------------------------------------
(* The admission semaphore                                                 *)

\* Mutant of CanAcquire: admission does not wait for a free permit
CanAcquire_NoWait(sem) == TRUE

\* acquire_owned completes only when a permit is available
CanAcquire(sem) == sem > 0
TakePermit(sem) == sem - 1
\* Mutant of DropPermit: a returning task keeps its permit
DropPermit_Leak(sem) == sem

\* dropping _permit gives the permit back
DropPermit(sem) == sem + 1

----------------------------------------------------------------------------
(* The collection loop body, run in the poll in which a task returns       *)

\* What is left of a task future once it has returned
Returned(task, pc) ==
    [ NewTask([model |-> task.model, provider |-> task.provider_name],
              task.case, task.attempt)
        EXCEPT !.pc = pc, !.gen_calls = task.gen_calls, !.sleeps = task.sleeps,
               !.rate_limit_retries = task.rate_limit_retries,
               !.generated = task.generated ]

\* Mutant of YieldOk: a new result is put in front of the earlier ones
YieldOk_Prepend(t, eval_result) ==
    /\ futures' = [futures EXCEPT ![t] = Returned(@, "done")]
    /\ semaphore' = DropPermit(semaphore)
    /\ events' = Append(events, [kind |-> "complete", task |-> t, result |-> eval_result])
    /\ results' = <<eval_result>> \o results
    /\ completed' = completed + 1
    /\ UNCHANGED <<compare_vars, aux_vars>> /\ UNCHANGED <<config, providers, eval_set, models, run_pc, failed, total, report>>

\* The task returns Ok(eval_result): arm Ok of the while-let loop
YieldOk(t, eval_result) ==
    /\ futures' = [futures EXCEPT ![t] = Returned(@, "done")]
    /\ semaphore' = DropPermit(semaphore)
    /\ events' = Append(events, [kind |-> "complete", task |-> t, result |-> eval_result])
    /\ results' = Append(results, eval_result)
    /\ completed' = completed + 1
    /\ UNCHANGED <<compare_vars, aux_vars>> /\ UNCHANGED <<config, providers, eval_set, models, run_pc, failed, total, report>>

\* Mutant of YieldErr: the failure is reported but not counted
YieldErr_Uncounted(t, e) ==
    /\ futures' = [futures EXCEPT ![t] = Returned(@, "failed")]
    /\ semaphore' = DropPermit(semaphore)
    /\ events' = Append(events, [kind |-> "error", task |-> t,
                                 case_id |-> futures[t].case.id,
                                 model |-> futures[t].model,
                                 error |-> to_string(e)])
    /\ UNCHANGED <<compare_vars, aux_vars>> /\ UNCHANGED <<config, providers, eval_set, models, run_pc, results, completed,
                   failed, total, report>>

\* Mutant of YieldErr: the first failure cancels the tasks still pending
YieldErr_Cancels(t, e) ==
    /\ futures' = [u \in DOMAIN futures |->
                      IF u = t \/ futures[u].pc \notin {"done", "failed"}
                      THEN Returned(futures[u], "failed")
                      ELSE futures[u]]
    /\ semaphore' = config.parallelism
    /\ events' = Append(events, [kind |-> "error", task |-> t,
                                 case_id |-> futures[t].case.id,
                                 model |-> futures[t].model,
                                 error |-> to_string(e)])
    /\ failed' = failed + 1
    /\ UNCHANGED <<compare_vars, aux_vars>> /\ UNCHANGED <<config, providers, eval_set, models, run_pc, results, completed,
                   total, report>>

\* Mutant of YieldErr: a stage error sends the task back to the provider call
YieldErr_Regenerate(t, e) ==
    IF futures[t].pc \in {"compiling", "testing", "linting"}
    THEN /\ futures' = [futures EXCEPT ![t] =
                           [@ EXCEPT !.pc = "generating", !.gen_calls = @ + 1]]
         /\ UNCHANGED <<compare_vars, aux_vars>>
         /\ UNCHANGED <<config, providers, eval_set, models, run_pc, semaphore, results,
                        completed, failed, total, events, report>>
    ELSE /\ futures' = [futures EXCEPT ![t] = Returned(@, "failed")]
         /\ semaphore' = DropPermit(semaphore)
         /\ events' = Append(events, [kind |-> "error", task |-> t,
                                      case_id |-> futures[t].case.id,
                                      model |-> futures[t].model,
                                      error |-> to_string(e)])
         /\ failed' = failed + 1
         /\ UNCHANGED <<compare_vars, aux_vars>>
         /\ UNCHANGED <<config, providers, eval_set, models, run_pc, results, completed,
                        total, report>>

\* Mutant of YieldErr: a task that fails keeps its permit
YieldErr_KeepsPermit(t, e) ==
    /\ futures' = [futures EXCEPT ![t] = Returned(@, "failed")]
    /\ events' = Append(events, [kind |-> "error", task |-> t,
                                 case_id |-> futures[t].case.id,
                                 model |-> futures[t].model,
                                 error |-> to_string(e)])
    /\ failed' = failed + 1
    /\ UNCHANGED <<compare_vars, aux_vars>>
    /\ UNCHANGED <<config, providers, eval_set, models, run_pc, semaphore, results,
                   completed, total, report>>

\* The task returns Err(e): arm Err of the while-let loop
YieldErr(t, e) ==
    /\ futures' = [futures EXCEPT ![t] = Returned(@, "failed")]
    /\ semaphore' = DropPermit(semaphore)
    /\ events' = Append(events, [kind |-> "error", task |-> t,
                                 case_id |-> futures[t].case.id,
                                 model |-> futures[t].model,
                                 error |-> to_string(e)])
    /\ failed' = failed + 1
    /\ UNCHANGED <<compare_vars, aux_vars>> /\ UNCHANGED <<config, providers, eval_set, models, run_pc, results, completed,
                   total, report>>

\* Mutant of Suspend: the permit only covers the provider call and is given
\* back when the task moves on to its stages
Suspend_PermitEndsAtStages(t, task) ==
    LET leaves == futures[t].permit /\ task.pc \in {"compiling", "testing", "linting"}
    IN  /\ futures' = [futures EXCEPT ![t] =
                          [task EXCEPT !.permit = IF leaves THEN FALSE ELSE @]]
        /\ semaphore' = IF leaves THEN DropPermit(semaphore) ELSE semaphore
        /\ UNCHANGED <<compare_vars, aux_vars>> /\ UNCHANGED <<config, providers, eval_set, models, run_pc, results,
                       completed, failed, total, events, report>>

\* Mutant of Suspend: the retry delay is one value shared by the tasks that
\* are in their retry loops
Suspend_SharedDelay(t, task) ==
    /\ futures' = [ u \in DOMAIN futures |->
                      IF u = t THEN task
                      ELSE IF futures[u].pc \in {"generating", "backoff"}
                      THEN [futures[u] EXCEPT !.retry_delay = task.retry_delay]
                      ELSE futures[u] ]
    /\ UNCHANGED <<compare_vars, aux_vars>>
    /\ UNCHANGED <<config, providers, eval_set, models, run_pc, semaphore, results,
                   completed, failed, total, events, report>>

\* A step of task t that leaves it suspended at its next await point
Suspend(t, task) ==
    /\ futures' = [futures EXCEPT ![t] = task]
    /\ UNCHANGED <<compare_vars, aux_vars>> /\ UNCHANGED <<config, providers, eval_set, models, run_pc, semaphore, results,
                   completed, failed, total, events, report>>

\* The EvalResult the task builds (engine.rs 226-243), timing left out
MakeEvalResult(task, compile_result, test_execution, clippy) ==
    [ case_id |-> task.case.id,
      model |-> task.model,
      provider |-> task.provider_name,
      generated_code |-> Unwrap(task.response).extracted_code,
      compilation |-> compile_result,
      test_execution |-> test_execution,
      clippy |-> clippy,
      token_usage |-> Unwrap(task.response).token_usage,
      attempt |-> task.attempt,
      run_id |-> RunId ]

----------------------------------------------------------------------------
(* The steps of a task (engine.rs 136-265)                                 *)

\* The permit is granted; the retry loop starts and calls provider.generate
Acquire(t) ==
    /\ run_pc = "polling"
    /\ futures[t].pc = "await_permit"
    /\ CanAcquire(semaphore)
    /\ futures' = [futures EXCEPT ![t] =
                      [@ EXCEPT !.pc = "generating",
                                !.gen_calls = 1,
                                !.sleeps = 0,
                                !.rate_limit_retries = 0,
                                !.permit = TRUE,
                                !.retry = 0,
                                !.retry_delay = config.retry_delay,
                                !.last_error = None]]
    /\ semaphore' = TakePermit(semaphore)
    /\ UNCHANGED <<compare_vars, aux_vars>> /\ UNCHANGED <<config, providers, eval_set, models, run_pc, results, completed,
                   failed, total, events, report>>

\* Mutant of NoRetry: only an authentication failure stops the retries
NoRetry_AuthOnly(err_str) == Contains(err_str, "authentication")

\* err_str.contains("authentication") || err_str.contains("model not found")
NoRetry(err_str) ==
    Contains(err_str, "authentication") \/ Contains(err_str, "model not found")

\* Mutant of NextDelay: the hint of a rate-limit error is not used
NextDelay_NoHint(retry_delay, err_str) == retry_delay

\* The retry-after hint taken from a rate-limit message (engine.rs 254-258)
NextDelay(retry_delay, err_str) ==
    IF Contains(err_str, "rate limited") /\ IsSome(parse_retry_after_ms(err_str))
    THEN Unwrap(parse_retry_after_ms(err_str))
    ELSE retry_delay

\* Mutant of HasNextRetry: the loop runs one iteration more
HasNextRetry_OneMore(retry, max_retries_per_case) == retry <= max_retries_per_case

\* for retry in 0..=config.max_retries_per_case: is there a next iteration
HasNextRetry(retry, max_retries_per_case) == retry < max_retries_per_case

\* provider.generate returns
GenerateReturns(t, out) ==
    /\ run_pc = "polling"
    /\ futures[t].pc = "generating"
    /\ LET task == futures[t]
           err_str == to_string(out.error)
       IN  IF out.ok
           THEN \* the compile stage is started with the generated code
                Suspend(t, [task EXCEPT !.pc = "compiling",
                                        !.generated = TRUE,
                                        !.response = Some(out.response)])
           ELSE IF NoRetry(err_str)
           THEN YieldErr(t, out.error)
           ELSE IF HasNextRetry(task.retry, config.max_retries_per_case)
           THEN \* next iteration: tokio::time::sleep(retry_delay)
                Suspend(t, [task EXCEPT !.pc = "backoff",
                                        !.sleeps = @ + 1,
                                        !.rate_limit_retries =
                                            IF out.error.variant = "RateLimited"
                                            THEN @ + 1 ELSE @,
                                        !.retry = @ + 1,
                                        !.retry_delay = NextDelay(@, err_str),
                                        !.last_error = Some(out.error)])
           ELSE \* the loop is over: Err(last_error)
                YieldErr(t, out.error)

\* retry_delay = (retry_delay * 2).min(Duration::from_secs(60))
Backoff(retry_delay) == Min(retry_delay * 2, BackoffCapMs)

\* The backoff sleep is over; provider.generate is called again
SleepReturns(t) ==
    /\ run_pc = "polling"
    /\ futures[t].pc = "backoff"
    /\ Suspend(t, [futures[t] EXCEPT !.pc = "generating",
                                     !.gen_calls = @ + 1,
                                     !.retry_delay = Backoff(@)])

\* Mutant of RunsTests: the expectation should_pass_tests is not consulted
RunsTests_AnyTestFile(compile_result, case) ==
    /\ compile_result.success
    /\ IsSome(case.test_file)

\* compile_result.success && case.expectations.should_pass_tests, with a test_file
RunsTests(compile_result, case) ==
    /\ compile_result.success
    /\ case.should_pass_tests
    /\ IsSome(case.test_file)

\* Mutant of RunsClippy: the lint stage runs whatever the compile result
RunsClippy_Always(compile_result) == TRUE

\* if compile_result.success { Some(run_clippy) } else { None }
RunsClippy(compile_result) == compile_result.success

\* runner.compile returns
CompileReturns(t, out) ==
    /\ run_pc = "polling"
    /\ futures[t].pc = "compiling"
    /\ LET task == futures[t]
       IN  IF ~out.ok
           THEN YieldErr(t, out.error)
           ELSE IF RunsTests(out.value, task.case)
           THEN Suspend(t, [task EXCEPT !.pc = "testing",
                                        !.compile_result = Some(out.value)])
           ELSE IF RunsClippy(out.value)
           THEN Suspend(t, [task EXCEPT !.pc = "linting",
                                        !.compile_result = Some(out.value)])
           ELSE YieldOk(t, MakeEvalResult(task, out.value, None, None))

\* runner.run_tests returns
TestReturns(t, out) ==
    /\ run_pc = "polling"
    /\ futures[t].pc = "testing"
    /\ LET task == futures[t]
       IN  IF ~out.ok
           THEN YieldErr(t, out.error)
           ELSE IF RunsClippy(Unwrap(task.compile_result))
           THEN Suspend(t, [task EXCEPT !.pc = "linting",
                                        !.test_execution = Some(out.value)])
           ELSE YieldOk(t, MakeEvalResult(task, Unwrap(task.compile_result),
                                          Some(out.value), None))

\* runner.run_clippy returns
ClippyReturns(t, out) ==
    /\ run_pc = "polling"
    /\ futures[t].pc = "linting"
    /\ LET task == futures[t]
       IN  IF ~out.ok
           THEN YieldErr(t, out.error)
           ELSE YieldOk(t, MakeEvalResult(task, Unwrap(task.compile_result),
                                          task.test_execution, Some(out.value)))

\* futures.next() yields None: on_set_complete, then the report is returned
SetComplete ==
    /\ run_pc = "polling"
    /\ \A t \in Tasks : futures[t].pc \in {"done", "failed"}
    /\ events' = Append(events, [kind |-> "set_complete", total |-> total,
                                 completed |-> completed, failed |-> failed])
    /\ report' = Some([id |-> RunId, results |-> results])
    /\ run_pc' = "returned"
    /\ UNCHANGED <<compare_vars, aux_vars>> /\ UNCHANGED <<config, providers, eval_set, models, futures, semaphore, results,
                   completed, failed, total>>

Next ==
    \/ \E es \in EvalSets, ms \in ModelLists : Run(es, ms)
    \/ \E t \in Tasks : Acquire(t)
    \/ \E t \in Tasks, out \in GenerateOutcomes : GenerateReturns(t, out)
    \/ \E t \in Tasks : SleepReturns(t)
    \/ \E t \in Tasks, out \in CompileOutcomes : CompileReturns(t, out)
    \/ \E t \in Tasks, out \in TestOutcomes : TestReturns(t, out)
    \/ \E t \in Tasks, out \in ClippyOutcomes : ClippyReturns(t, out)
    \/ SetComplete

Spec == Init /\ [][Next]_vars

\* The engine with one permit, one sample per case and a retry budget of up
\* to RetryBudget: the runs in which a task goes through several retries
RetryInit ==
    /\ config \in [ parallelism : {1},
                     pass_k : {<<1>>},
                     max_retries_per_case : 0..RetryBudget,
                     retry_delay : RetryDelayChoices ]
    /\ providers = {"anthropic"}
    /\ eval_set = <<>>
    /\ models = <<>>
    /\ run_pc = "idle"
    /\ futures = <<>>
    /\ semaphore = 0
    /\ results = <<>>
    /\ completed = 0
    /\ failed = 0
    /\ total = 0
    /\ events = <<>>
    /\ report = None
    /\ NoComparison
    /\ NoCall

RetrySpec == RetryInit /\ [][Next]_vars

\* The comparator on its own: two reports and a threshold, compare is called
CompareInit ==
    /\ config = [ parallelism |-> 4, pass_k |-> <<1>>,
                  max_retries_per_case |-> 3, retry_delay |-> 1000 ]
    /\ providers = {}
    /\ eval_set = <<>>
    /\ models = <<>>
    /\ run_pc = "idle"
    /\ futures = <<>>
    /\ semaphore = 0
    /\ results = <<>>
    /\ completed = 0
    /\ failed = 0
    /\ total = 0
    /\ events = <<>>
    /\ report = None
    /\ baseline \in Reports
    /\ current \in Reports
    /\ threshold \in Thresholds
    /\ regression_report = None
    /\ NoCall

\* current.compare(&baseline, threshold) returns
Compare(order) ==
    /\ regression_report = None
    /\ regression_report' = Some(compare(current, baseline, threshold, order))
    /\ UNCHANGED <<baseline, current, threshold>>
    /\ UNCHANGED aux_vars
    /\ UNCHANGED <<config, providers, eval_set, models, run_pc, futures, semaphore,
                   results, completed, failed, total, events, report>>

CompareNext == \E order \in Orders(DOMAIN score_map(current)) : Compare(order)

CompareSpec == CompareInit /\ [][CompareNext]_vars

----------------------------------------------------------------------------
(* Properties                                                              *)

InFlightPcs == {"generating", "backoff", "compiling", "testing", "linting"}
TerminalPcs == {"done", "failed"}

\* Tasks between the start of their provider call and the end of their last stage
InFlight == { t \in Tasks : futures[t].pc \in InFlightPcs }
PermitHolders == { t \in Tasks : futures[t].permit }

\* C1: at any time, at most `parallelism` tasks are between the start of
\* their provider call and the end of their last stage (backoff sleeps
\* included), counted over all (case, model, attempt) tasks of the run.
C1_AdmissionBound == Cardinality(InFlight) <= config.parallelism

\* C1 witness: every permit is taken by a task in flight while another task
\* of the run still waits for admission.
C1_Witness ==
    /\ config.parallelism >= 1
    /\ Cardinality(InFlight) = config.parallelism
    /\ \E t \in Tasks : futures[t].pc = "await_permit"

\* C2: a task is in its generate / backoff / compile / test / lint steps only
\* while it holds its permit: the permit is taken before the first generate
\* call and given back only when the task has returned (result or error), and
\* the permits given out are exactly those missing from the semaphore.
C2_PermitSpansTask ==
    /\ \A t \in Tasks :
          /\ futures[t].pc \in InFlightPcs => futures[t].permit
          /\ futures[t].permit => futures[t].pc \in InFlightPcs
          /\ futures[t].pc = "await_permit" => futures[t].gen_calls = 0
    /\ run_pc = "polling" =>
          semaphore + Cardinality(PermitHolders) = config.parallelism

\* C2 witness: a task has returned and given its permit back while another
\* one, past a backoff sleep, runs a stage under its own permit.
C2_Witness ==
    \E t, u \in Tasks :
        /\ futures[t].pc \in TerminalPcs /\ ~futures[t].permit
        /\ futures[t].gen_calls >= 1
        /\ futures[u].pc \in {"compiling", "testing", "linting"}
        /\ futures[u].gen_calls >= 2
        /\ futures[u].permit

RunReturned == run_pc = "returned" /\ IsSome(report)

SetCompleteEvents == { i \in DOMAIN events : events[i].kind = "set_complete" }

\* An upper bound on the steps a task can still take
TaskRank(task) ==
    CASE task.pc = "await_permit" -> 2 * config.max_retries_per_case + 6
      [] task.pc = "generating" -> 2 * (config.max_retries_per_case - task.retry) + 4
      [] task.pc = "backoff" -> 2 * (config.max_retries_per_case - task.retry) + 5
      [] task.pc = "compiling" -> 3
      [] task.pc = "testing" -> 2
      [] task.pc = "linting" -> 1
      [] OTHER -> 0

RECURSIVE SumRank(_)
SumRank(fs) == IF fs = <<>> THEN 0 ELSE TaskRank(Head(fs)) + SumRank(Tail(fs))

\* An upper bound on the steps the run can still take
RunRank ==
    CASE run_pc = "idle" -> 2 + MaxTasks * (2 * MaxRetries + 6)
      [] run_pc = "polling" -> 1 + SumRank(futures)
      [] OTHER -> 0

\* While run is suspended at futures.next(), a step can be taken: a call a
\* task waits for returns, a waiting task is granted a free permit, or
\* futures.next() yields None.  (Equivalent to ENABLED Next while polling.)
StepAvailable ==
    \/ \E t \in Tasks : futures[t].pc \in InFlightPcs
    \/ \E t \in Tasks : futures[t].pc = "await_permit" /\ CanAcquire(semaphore)
    \/ \A t \in Tasks : futures[t].pc \in TerminalPcs

\* Every step of the run uses up some of its bounded supply of steps
RunRankDecreases == [][RunRank' < RunRank]_vars

\* C3 as stated: whatever the configuration, a run that has started ends by
\* emitting the set-complete summary and returning a report: it takes a
\* bounded number of steps, and until it has returned it is never left
\* without a step to take (every call it waits for returns).
C3_RunTerminates ==
    /\ RunRankDecreases
    /\ [](run_pc = "polling" => StepAvailable)
    /\ [](run_pc = "returned" => IsSome(report) /\ SetCompleteEvents # {})

\* C3 amended: the same, for configurations with parallelism >= 1 and for
\* runs that create no task.
C3_RunTerminatesWithPermits ==
    /\ RunRankDecreases
    /\ [](run_pc = "polling" /\ (config.parallelism >= 1 \/ total = 0) => StepAvailable)
    /\ [](run_pc = "returned" => IsSome(report) /\ SetCompleteEvents # {})

\* C3 witness: a run of two tasks contending for one permit has returned,
\* one of its tasks having retried its provider call.
C3_Witness ==
    /\ RunReturned
    /\ config.parallelism = 1
    /\ total = 2
    /\ \E t \in Tasks : futures[t].gen_calls >= 2

\* C4: there is exactly one set-complete event, it is the last event and
\* comes after the complete / error event of every task; total is the number
\* of tasks created, completed + failed = total, completed is the number of
\* results in the report and failed the number of tasks that ended in error.
C4_SetCompleteCounts ==
    /\ run_pc # "returned" => SetCompleteEvents = {}
    /\ run_pc = "returned" =>
          /\ SetCompleteEvents = {Len(events)}
          /\ \A t \in Tasks :
                \E i \in 1..(Len(events) - 1) :
                    events[i].kind \in {"complete", "error"} /\ events[i].task = t
          /\ LET e == events[Len(events)]
             IN  /\ e.total = Len(futures)
                 /\ e.completed + e.failed = e.total
                 /\ e.completed = Len(Unwrap(report).results)
                 /\ e.failed = Cardinality({ t \in Tasks : futures[t].pc = "failed" })

\* C4 witness: a finished run with one result and one failed task.
C4_Witness ==
    /\ run_pc = "returned"
    /\ events[Len(events)].kind = "set_complete"
    /\ events[Len(events)].completed = 1
    /\ events[Len(events)].failed = 1

ErrorEventsOf(t) ==
    { i \in DOMAIN events : events[i].kind = "error" /\ events[i].task = t }

\* C5: a task that fails has exactly one error event; the step in which it
\* fails changes no other task, does not end the run and drops no result;
\* and after a failure the run is never left without a step to take until
\* it has returned its report, so every sibling runs to its own terminal
\* state (the run's steps being bounded).
C5_FailureIsLocal ==
    /\ [](\A t \in Tasks :
            Cardinality(ErrorEventsOf(t)) = IF futures[t].pc = "failed" THEN 1 ELSE 0)
    /\ [][\A t \in Tasks :
            (futures[t].pc # "failed" /\ futures'[t].pc = "failed") =>
                /\ \A u \in Tasks \ {t} : futures'[u] = futures[u]
                /\ run_pc' = run_pc
                /\ results' = results]_vars
    /\ []((\E t \in Tasks : futures[t].pc = "failed") =>
            \/ RunReturned /\ \A u \in Tasks : futures[u].pc \in TerminalPcs
            \/ run_pc = "polling" /\ StepAvailable)

\* C5 witness: a task exhausted its retry budget on a transient error and
\* its sibling produced a result after that.
C5_Witness ==
    \E i, j \in DOMAIN events :
        /\ i < j
        /\ events[i].kind = "error"
        /\ events[i].error = to_string(ApiError(500, <<"overloaded">>))
        /\ futures[events[i].task].gen_calls = config.max_retries_per_case + 1
        /\ events[j].kind = "complete"

\* The case of the eval set with the given id
CaseOf(case_id) ==
    CHOOSE c \in { eval_set[i] : i \in DOMAIN eval_set } : c.id = case_id

\* C6: a recorded EvalResult has no test_execution when its compile failed,
\* or its case does not expect tests to pass, or its case has no test
\* source; a task is in the test stage only when all three are otherwise.
C6_TestsOnlyWhenExpected ==
    /\ \A i \in DOMAIN results :
          LET r == results[i]
              c == CaseOf(r.case_id)
          IN  (~r.compilation.success \/ ~c.should_pass_tests \/ ~IsSome(c.test_file))
                  => r.test_execution = None
    /\ \A t \in Tasks :
          futures[t].pc = "testing" =>
              /\ Unwrap(futures[t].compile_result).success
              /\ futures[t].case.should_pass_tests
              /\ IsSome(futures[t].case.test_file)

\* C6 witness: a compiled result without tests although its case has a test
\* source, next to a sibling of the same case whose compile failed.
C6_Witness ==
    \E i, j \in DOMAIN results :
        /\ results[i].compilation.success
        /\ IsSome(CaseOf(results[i].case_id).test_file)
        /\ ~CaseOf(results[i].case_id).should_pass_tests
        /\ results[i].test_execution = None
        /\ ~results[j].compilation.success
        /\ results[j].test_execution = None

\* C7: a recorded EvalResult has a lint result exactly when its compile
\* succeeded, whether or not tests ran and whatever their outcome.
C7_LintIffCompiled ==
    \A i \in DOMAIN results :
        IsSome(results[i].clippy) <=> results[i].compilation.success

\* C7 witness: a linted result whose tests failed, next to a sibling whose
\* compile failed and that has no lint result.
C7_Witness ==
    \E i, j \in DOMAIN results :
        /\ IsSome(results[i].clippy) /\ IsSome(results[i].test_execution)
        /\ Unwrap(results[i].test_execution).failed >= 1
        /\ results[j].clippy = None /\ ~results[j].compilation.success

\* C8 as stated: in the returned report every attempt is in 1..max(pass_k)
\* and no two results share (run_id, case_id, model, attempt).
C8_AttemptRangeAndUniqueKey ==
    IsSome(report) =>
        LET rs == Unwrap(report).results
        IN  \A i, j \in DOMAIN rs :
                /\ rs[i].attempt \in 1..max_k_of(config.pass_k)
                /\ i # j =>
                      <<rs[i].run_id, rs[i].case_id, rs[i].model, rs[i].attempt>>
                          # <<rs[j].run_id, rs[j].case_id, rs[j].model, rs[j].attempt>>

StageErrorStrings ==
    { to_string(o.error) :
        o \in { x \in CompileOutcomes \cup TestOutcomes \cup ClippyOutcomes : ~x.ok } }

\* C9 as stated: a stage that ends in an unrecoverable stage error does not
\* make its task fail: no error event carries a stage error, the task yields
\* an EvalResult instead.
C9_StageErrorYieldsResult ==
    \A i \in DOMAIN events :
        events[i].kind = "error" => events[i].error \notin StageErrorStrings

\* C10: no task goes on after a permanent provider error: a task that has
\* been through the retry path (backoff, a further generate call, or any
\* stage after one) got there on an error that is not permanent.
C10_PermanentErrorAborts ==
    \A t \in Tasks :
        IsSome(futures[t].last_error) => ~is_permanent(Unwrap(futures[t].last_error))

\* C10 witness: with retry budget left, a task failed on model-not-found
\* after a single generate call.
C10_Witness ==
    \E t \in Tasks :
        /\ futures[t].pc = "failed"
        /\ futures[t].gen_calls = 1
        /\ config.max_retries_per_case >= 1
        /\ \E i \in ErrorEventsOf(t) :
              events[i].error = to_string(ModelNotFound(<<"m1">>))

\* Error texts of the provider errors whose variant is not permanent
TransientErrorStrings == { to_string(e) : e \in { x \in ProviderErrors : ~is_permanent(x) } }

\* C11 as stated: whether a failed provider call is retried depends on the
\* variant of its error only: a task that failed on an error of a transient
\* variant (rate limited, network, timeout, API error), whatever its
\* message, had used up its retry budget.
C11_RetryByVariantOnly ==
    \A t \in Tasks :
        \A i \in ErrorEventsOf(t) :
            events[i].error \in TransientErrorStrings =>
                futures[t].gen_calls = config.max_retries_per_case + 1

\* C12 as stated: no task calls provider.generate more than
\* max_retries_per_case times.
C12_AtMostMaxRetriesCalls ==
    \A t \in Tasks : futures[t].gen_calls <= config.max_retries_per_case

\* C12 amended: no task calls provider.generate more than
\* max_retries_per_case + 1 times (the first call and max_retries_per_case
\* retries), and a task that is still retrying has budget left.
C12_AtMostMaxRetriesPlusOneCalls ==
    \A t \in Tasks :
        /\ futures[t].gen_calls <= config.max_retries_per_case + 1
        /\ futures[t].pc \in {"generating", "backoff"} =>
              /\ futures[t].retry <= config.max_retries_per_case
              /\ futures[t].gen_calls =
                    futures[t].retry + (IF futures[t].pc = "generating" THEN 1 ELSE 0)

\* C12 witness: with a budget of two retries, a task failed after its third
\* provider call.
C12_Witness ==
    \E t \in Tasks :
        /\ config.max_retries_per_case = 2
        /\ futures[t].gen_calls = 3
        /\ futures[t].pc = "failed"
        /\ ~futures[t].generated

CompleteEventsOf(t) ==
    { i \in DOMAIN events : events[i].kind = "complete" /\ events[i].task = t }

\* C13 as stated: a task whose provider call was rate limited twice and then
\* succeeded ends with exactly one EvalResult and no error event, after
\* exactly two backoff sleeps (one before each retry, none after the
\* success), its result carrying the token usage of the successful response.
C13_RateLimitedTwiceThenOk ==
    \A t \in Tasks :
        ( /\ futures[t].pc \in TerminalPcs
          /\ futures[t].generated
          /\ futures[t].gen_calls = 3
          /\ futures[t].rate_limit_retries = 2 ) =>
            /\ ErrorEventsOf(t) = {}
            /\ Cardinality(CompleteEventsOf(t)) = 1
            /\ futures[t].sleeps = 2
            /\ \A i \in CompleteEventsOf(t) :
                  \E r \in Responses : events[i].result.token_usage = r.token_usage

\* C14 as stated: the complete or error event of a task comes after a start
\* event of that task.
C14_StartBeforeOutcome ==
    \A i \in DOMAIN events :
        events[i].kind \in {"complete", "error"} =>
            \E j \in 1..(i - 1) :
                events[j].kind = "start" /\ events[j].task = events[i].task

IsCompleteEvent(e) == e.kind = "complete"

\* The results carried by the complete events, in the order of the events
CompletedInOrder ==
    LET sel == SelectSeq(events, IsCompleteEvent)
    IN  [ i \in 1..Len(sel) |-> sel[i].result ]

\* C15: the results list holds the results in the order in which the tasks
\* produced them, which is the order of the complete events, and the report
\* returns that list as it is.
C15_CompletionOrder ==
    /\ results = CompletedInOrder
    /\ IsSome(report) => Unwrap(report).results = CompletedInOrder

\* C15 witness: the report of a finished run lists the result of the task
\* created second before the different result of the task created first.
C15_Witness ==
    /\ IsSome(report)
    /\ \E i, j \in DOMAIN events :
          /\ i < j
          /\ events[i].kind = "complete" /\ events[j].kind = "complete"
          /\ events[i].task > events[j].task
          /\ events[i].result # events[j].result

\* Positions of the model list whose provider is registered
RegisteredModels == { m \in DOMAIN models : models[m].provider \in providers }

\* The largest element of a non-empty pass_k list
MaxOfPassK ==
    CHOOSE k \in { config.pass_k[i] : i \in DOMAIN config.pass_k } :
        \A i \in DOMAIN config.pass_k : config.pass_k[i] <= k

\* C16: once run has expanded its tasks (pass_k not empty), there is one task
\* for each case, each position of the model list whose provider is
\* registered and each attempt 1..max(pass_k), and no other task: the total
\* is the product of the three counts, and a model spec whose provider is
\* not registered has no task while the run goes on.
C16_TaskExpansion ==
    (run_pc # "idle" /\ config.pass_k # <<>>) =>
        /\ total = Len(futures)
        /\ Len(futures) = Len(eval_set) * Cardinality(RegisteredModels) * MaxOfPassK
        /\ \A t \in Tasks :
              /\ futures[t].provider_name \in providers
              /\ futures[t].attempt \in 1..MaxOfPassK
        /\ \A c \in DOMAIN eval_set, a \in 1..MaxOfPassK :
              \A spec \in { models[m] : m \in DOMAIN models } :
                 Cardinality({ t \in Tasks :
                                 /\ futures[t].case = eval_set[c]
                                 /\ futures[t].model = spec.model
                                 /\ futures[t].provider_name = spec.provider
                                 /\ futures[t].attempt = a })
                   = Cardinality({ m \in RegisteredModels : models[m] = spec })

\* C16 witness: a run over one case, two samples and a model list of which
\* one spec has no registered provider, has created its two tasks and
\* finished.
C16_Witness ==
    /\ run_pc = "returned"
    /\ config.pass_k # <<>>
    /\ Len(eval_set) = 1
    /\ Len(models) = 2
    /\ Cardinality(RegisteredModels) = 1
    /\ total = 2

----------------------------------------------------------------------------
(* Properties of the comparator                                            *)

\* The (case, model) pairs that have a result in a report
PairsOf(rep) == { KeyOf(rep.results[i]) : i \in DOMAIN rep.results }

\* The largest overall score among the results of a pair in a report
BestScore(rep, key) ==
    LET scores == { Score_compute(rep.results[i]) :
                      i \in { j \in DOMAIN rep.results : KeyOf(rep.results[j]) = key } }
    IN  CHOOSE m \in scores : \A x \in scores : x <= m

CommonPairs == PairsOf(current) \cap PairsOf(baseline)
DeltaOf(key) == BestScore(current, key) - BestScore(baseline, key)

\* The entry compare records for a pair of both reports
EntryOf(key) ==
    [ case_id |-> key[1], model |-> key[2],
      baseline_score |-> BestScore(baseline, key),
      current_score |-> BestScore(current, key),
      delta |-> DeltaOf(key) ]

Range(q) == { q[i] : i \in DOMAIN q }
Compared == IsSome(regression_report)
ComparisonResult == Unwrap(regression_report)

\* C17: a report compared with itself under a threshold above zero has no
\* regression, no improvement, no new and no removed case, and as many
\* unchanged pairs as it has distinct (case, model) pairs.
C17_SelfCompareUnchanged ==
    (Compared /\ baseline = current /\ threshold > 0) =>
        /\ ComparisonResult.regressions = <<>>
        /\ ComparisonResult.improvements = <<>>
        /\ ComparisonResult.new_cases = 0
        /\ ComparisonResult.removed_cases = 0
        /\ ComparisonResult.unchanged = Cardinality(PairsOf(current))

\* C17 witness: a report with results of two pairs was compared with itself.
C17_Witness ==
    /\ Compared
    /\ baseline = current
    /\ threshold > 0
    /\ Cardinality(PairsOf(current)) = 2
    /\ ComparisonResult.unchanged = 2

\* C18: for a threshold that is not negative, the pairs of both reports are
\* classified by their signed delta: the regressions are exactly the pairs
\* with delta < -threshold, the improvements exactly those with
\* delta > threshold, the others (a delta of exactly +threshold or
\* -threshold included) are counted unchanged; each entry carries the
\* pair's baseline score, current score and delta, once.
C18_SignedDeltaClasses ==
    (Compared /\ threshold >= 0) =>
        /\ Range(ComparisonResult.regressions)
              = { EntryOf(k) : k \in { c \in CommonPairs : DeltaOf(c) < 0 - threshold } }
        /\ Range(ComparisonResult.improvements)
              = { EntryOf(k) : k \in { c \in CommonPairs : DeltaOf(c) > threshold } }
        /\ ComparisonResult.unchanged
              = Cardinality({ c \in CommonPairs :
                                ~(DeltaOf(c) < 0 - threshold) /\ ~(DeltaOf(c) > threshold) })
        /\ Len(ComparisonResult.regressions)
              = Cardinality(Range(ComparisonResult.regressions))
        /\ Len(ComparisonResult.improvements)
              = Cardinality(Range(ComparisonResult.improvements))

\* C18 witness: under a threshold of 250, one pair went up by exactly 250 and
\* is counted unchanged, another went up by more and is the one improvement.
C18_Witness ==
    /\ Compared
    /\ threshold = 250
    /\ \E k1, k2 \in CommonPairs :
          /\ DeltaOf(k1) = 250
          /\ DeltaOf(k2) > 250
          /\ ComparisonResult.unchanged = 1
          /\ ComparisonResult.improvements = <<EntryOf(k2)>>

\* A report with its results in another order
Reordered(rep, p) == [results |-> [ i \in DOMAIN p |-> rep.results[p[i]] ]]

\* C19: the score compare uses for a pair of a report is the largest overall
\* score among the pair's results in that report, and what compare returns
\* is what it returns for the same reports with their results in any other
\* order.
C19_BestOfAttempts ==
    /\ score_map(current) = [ k \in PairsOf(current) |-> BestScore(current, k) ]
    /\ score_map(baseline) = [ k \in PairsOf(baseline) |-> BestScore(baseline, k) ]
    /\ Compared =>
          /\ \A e \in Range(ComparisonResult.regressions)
                        \cup Range(ComparisonResult.improvements) :
                /\ e.baseline_score = BestScore(baseline, <<e.case_id, e.model>>)
                /\ e.current_score = BestScore(current, <<e.case_id, e.model>>)
          /\ \A p \in Orders(DOMAIN current.results), q \in Orders(DOMAIN baseline.results) :
                \E order \in Orders(PairsOf(current)) :
                    compare(Reordered(current, p), Reordered(baseline, q), threshold, order)
                        = ComparisonResult

\* C19 witness: the current report has two attempts of a pair, the better
\* one first, the baseline has the pair too, and the entry recorded for the
\* pair carries the better score.
C19_Witness ==
    /\ Compared
    /\ Len(current.results) = 2
    /\ KeyOf(current.results[1]) = KeyOf(current.results[2])
    /\ Score_compute(current.results[1]) > Score_compute(current.results[2])
    /\ Len(ComparisonResult.improvements) = 1
    /\ ComparisonResult.improvements[1].current_score = Score_compute(current.results[1])

EntryKeys(q) == { <<q[i].case_id, q[i].model>> : i \in DOMAIN q }

\* C20: every pair of the current report is in exactly one class (one
\* regression entry, one improvement entry, counted unchanged or counted
\* new), so the four counts add up to the number of pairs of the current
\* report; new_cases counts the pairs of current that the baseline lacks and
\* removed_cases the pairs of the baseline that current lacks.
C20_ClassesPartitionCurrent ==
    Compared =>
        /\ Len(ComparisonResult.regressions) + Len(ComparisonResult.improvements)
              + ComparisonResult.unchanged + ComparisonResult.new_cases
                = Cardinality(PairsOf(current))
        /\ ComparisonResult.new_cases = Cardinality(PairsOf(current) \ PairsOf(baseline))
        /\ ComparisonResult.removed_cases = Cardinality(PairsOf(baseline) \ PairsOf(current))
        /\ EntryKeys(ComparisonResult.regressions) \cap EntryKeys(ComparisonResult.improvements) = {}
        /\ EntryKeys(ComparisonResult.regressions) \cup EntryKeys(ComparisonResult.improvements)
              \subseteq CommonPairs
        /\ Cardinality(EntryKeys(ComparisonResult.regressions))
              = Len(ComparisonResult.regressions)
        /\ Cardinality(EntryKeys(ComparisonResult.improvements))
              = Len(ComparisonResult.improvements)

\* C20 witness: a comparison with one regression, one new pair and one
\* removed pair.
C20_Witness ==
    /\ Compared
    /\ Len(ComparisonResult.regressions) = 1
    /\ ComparisonResult.new_cases = 1
    /\ ComparisonResult.removed_cases = 1

----------------------------------------------------------------------------
(* Pass@k (pass_at_k in crates/forgetest-core/src/statistics.rs).  An f64  *)
(* is modelled as the exact rational it approximates, a record             *)
(* [num, den] with den > 0; the logarithm of a binomial coefficient is     *)
(* modelled by the coefficient itself, and f64::NEG_INFINITY by 0.         *)

MaxN == 5

Ratio(p, q) == [num |-> p, den |-> q]
RatLeq(a, b) == a.num * b.den <= b.num * a.den
RatEq(a, b) == a.num * b.den = b.num * a.den
RatLt(a, b) == a.num * b.den < b.num * a.den

\* the product of a - i over the loop `for i in 0..b`
RECURSIVE FallingProduct(_, _)
FallingProduct(a, b) == IF b = 0 THEN 1 ELSE (a - (b - 1)) * FallingProduct(a, b - 1)

\* the closure log_comb: exp of its result, 0 for NEG_INFINITY
log_comb(a, b) ==
    IF b > a THEN Ratio(0, 1)
    ELSE Ratio(FallingProduct(a, b), FallingProduct(b, b))

pass_at_k_FailureRate(n, c, k) ==
    IF n = 0 \/ k = 0 THEN Ratio(0, 1)
    ELSE IF c = 0 THEN Ratio(0, 1)
    ELSE IF k > n THEN (IF c >= n THEN Ratio(1, 1) ELSE Ratio(c, n))
    ELSE IF c >= n THEN Ratio(1, 1)
    ELSE LET log_numerator == log_comb(n - c, k)
             log_denominator == log_comb(n, k)
         IN  IF log_numerator.num = 0 THEN Ratio(1, 1)
             ELSE Ratio(log_numerator.num * log_denominator.den,
                        log_numerator.den * log_denominator.num)

pass_at_k_Unclamped(n, c, k) ==
    IF n = 0 \/ k = 0 THEN Ratio(0, 1)
    ELSE IF c = 0 THEN Ratio(0, 1)
    ELSE IF k > n THEN Ratio(c, n)
    ELSE IF c >= n THEN Ratio(1, 1)
    ELSE LET log_numerator == log_comb(n - c, k)
             log_denominator == log_comb(n, k)
         IN  IF log_numerator.num = 0 THEN Ratio(1, 1)
             ELSE Ratio(log_numerator.den * log_denominator.num
                          - log_numerator.num * log_denominator.den,
                        log_numerator.den * log_denominator.num)

pass_at_k(n, c, k) ==
    IF n = 0 \/ k = 0 THEN Ratio(0, 1)
    ELSE IF c = 0 THEN Ratio(0, 1)
    ELSE IF k > n THEN (IF c >= n THEN Ratio(1, 1) ELSE Ratio(c, n))
    ELSE IF c >= n THEN Ratio(1, 1)
    ELSE LET log_numerator == log_comb(n - c, k)
             log_denominator == log_comb(n, k)
         IN  IF log_numerator.num = 0 THEN Ratio(1, 1)
             ELSE Ratio(log_numerator.den * log_denominator.num
                          - log_numerator.num * log_denominator.den,
                        log_numerator.den * log_denominator.num)

\* The engine and the comparator at rest
EngineIdle ==
    /\ config = [ parallelism |-> 4, pass_k |-> <<1>>,
                  max_retries_per_case |-> 3, retry_delay |-> 1000 ]
    /\ providers = {}
    /\ eval_set = <<>>
    /\ models = <<>>
    /\ run_pc = "idle"
    /\ futures = <<>>
    /\ semaphore = 0
    /\ results = <<>>
    /\ completed = 0
    /\ failed = 0
    /\ total = 0
    /\ events = <<>>
    /\ report = None

engine_vars == <<config, providers, eval_set, models, run_pc, futures, semaphore,
                 results, completed, failed, total, events, report>>

PassAtKCalls ==
    { [fn |-> "pass_at_k", n |-> n, c |-> c, k |-> k] :
        n \in 0..MaxN, c \in 0..(MaxN + 1), k \in 0..(MaxN + 1) }

PassAtKInit ==
    /\ EngineIdle
    /\ NoComparison
    /\ call \in PassAtKCalls
    /\ ret = None
    /\ sandbox = None
    /\ cli = None

\* pass_at_k(n, c, k) returns
PassAtK ==
    /\ call # None
    /\ call.fn = "pass_at_k"
    /\ ret = None
    /\ ret' = Some(pass_at_k(call.n, call.c, call.k))
    /\ UNCHANGED <<call, sandbox, cli>>
    /\ UNCHANGED compare_vars
    /\ UNCHANGED engine_vars

PassAtKSpec == PassAtKInit /\ [][PassAtK]_vars

PassAtKReturned == call # None /\ call.fn = "pass_at_k" /\ ret # None

C22_MonotoneInC ==
    PassAtKReturned =>
        /\ RatLeq(Ratio(0, 1), Unwrap(ret))
        /\ RatLeq(Unwrap(ret), Ratio(1, 1))
        /\ \A c2 \in call.c..(MaxN + 1) :
              RatLeq(Unwrap(ret), pass_at_k(call.n, c2, call.k))

\* C22 witness: a call with k <= n and 0 < c < n - k, so that the general
\* branch is taken, whose value is strictly between 0 and 1 and strictly
\* below the value for c + 1.
C22_Witness ==
    /\ PassAtKReturned
    /\ 1 <= call.k /\ call.k <= call.n
    /\ 0 < call.c /\ call.c + call.k < call.n
    /\ RatLt(Ratio(0, 1), Unwrap(ret))
    /\ RatLt(Unwrap(ret), Ratio(1, 1))
    /\ RatLt(Unwrap(ret), pass_at_k(call.n, call.c + 1, call.k))

----------------------------------------------------------------------------
(* Scores of attempts that failed to compile                               *)

\* The results of a report for one (case, model) pair
ResultsOf(rep, key) ==
    { rep.results[i] : i \in { j \in DOMAIN rep.results : KeyOf(rep.results[j]) = key } }

\* Every attempt of the pair in the current report failed to compile
CompileFailedPair(key) ==
    \A r \in ResultsOf(current, key) : ~r.compilation.success

EntriesFor(entries, key) ==
    { e \in Range(entries) : <<e.case_id, e.model>> = key }

----------------------------------------------------------------------------
(* Pass@k over a batch of results (compute_pass_at_k_batch in              *)
(* statistics.rs).  The components of a Score are in thousandths.          *)

MaxGroup == 3

\* Score::compute(r, exp).compilation
Score_compilation(r) == IF r.compilation.success THEN 1000 ELSE 0

\* Score::compute(r, exp).tests
Score_tests(r) ==
    IF IsSome(r.test_execution)
          /\ Unwrap(r.test_execution).passed + Unwrap(r.test_execution).failed > 0
    THEN (1000 * Unwrap(r.test_execution).passed)
            \div (Unwrap(r.test_execution).passed + Unwrap(r.test_execution).failed)
    ELSE 0

\* The filter closure: expectations is case_expectations.get(case_id)
IsCorrect(r, expectations) ==
    IF IsSome(expectations)
    THEN Score_compilation(r) >= 1000 /\ Score_tests(r) >= 990
    ELSE r.compilation.success

\* eval_set.cases collected into a map by id
case_expectations(es, case_id) ==
    IF \E i \in DOMAIN es : es[i].id = case_id
    THEN Some(CHOOSE e \in Range(es) : e.id = case_id)
    ELSE None

\* grouped: the indices of the results of each (case_id, model)
grouped(rs) ==
    [ key \in { KeyOf(rs[i]) : i \in DOMAIN rs } |->
        { i \in DOMAIN rs : KeyOf(rs[i]) = key } ]

compute_pass_at_k_batch(rs, es, k_values) ==
    [ key \in DOMAIN grouped(rs) |->
        LET group == grouped(rs)[key]
            n == Cardinality(group)
            expectations == case_expectations(es, key[1])
            c == Cardinality({ i \in group : IsCorrect(rs[i], expectations) })
        IN  [ k \in Range(k_values) |-> pass_at_k(n, c, k) ] ]

BatchOutcomes ==
    { [compilation |-> [success |-> FALSE], test_execution |-> None, clippy |-> None],
      [compilation |-> [success |-> TRUE],
       test_execution |-> Some([passed |-> 1, failed |-> 0]),
       clippy |-> Some([warning_count |-> 0])],
      [compilation |-> [success |-> TRUE],
       test_execution |-> Some([passed |-> 1, failed |-> 0]),
       clippy |-> Some([warning_count |-> 3])],
      [compilation |-> [success |-> TRUE],
       test_execution |-> Some([passed |-> 0, failed |-> 1]),
       clippy |-> Some([warning_count |-> 0])],
      [compilation |-> [success |-> TRUE], test_execution |-> None,
       clippy |-> Some([warning_count |-> 0])] }

BatchResults ==
    { [case_id |-> id, model |-> "m1", compilation |-> o.compilation,
       test_execution |-> o.test_execution, clippy |-> o.clippy] :
        id \in {"add", "fib"}, o \in BatchOutcomes }

BatchInit ==
    /\ EngineIdle
    /\ NoComparison
    /\ call \in { [fn |-> "compute_pass_at_k_batch", results |-> rs,
                    eval_set |-> es, k_values |-> ks] :
                    rs \in UNION { [1..n -> BatchResults] : n \in 0..MaxGroup },
                    es \in { s \in DistinctSeqs(EvalCases, 2) : Len(s) > 0 /\ s[1].id = "add" },
                    ks \in { <<1>>, <<1, 2>> } }
    /\ ret = None
    /\ sandbox = None
    /\ cli = None

\* compute_pass_at_k_batch(results, eval_set, k_values) returns
Batch ==
    /\ call # None
    /\ call.fn = "compute_pass_at_k_batch"
    /\ ret = None
    /\ ret' = Some(compute_pass_at_k_batch(call.results, call.eval_set, call.k_values))
    /\ UNCHANGED <<call, sandbox, cli>>
    /\ UNCHANGED compare_vars
    /\ UNCHANGED engine_vars

BatchSpec == BatchInit /\ [][Batch]_vars

BatchReturned == call # None /\ call.fn = "compute_pass_at_k_batch" /\ ret # None

\* The number of results of a (case, model) pair in the call
GroupSize(key) ==
    Cardinality({ i \in DOMAIN call.results : KeyOf(call.results[i]) = key })

\* The number of them whose score has compilation >= 1 and tests >= 0.99
GroupSuccesses(key) ==
    Cardinality({ i \in DOMAIN call.results :
                    /\ KeyOf(call.results[i]) = key
                    /\ Score_compilation(call.results[i]) >= 1000
                    /\ Score_tests(call.results[i]) >= 990 })

\* C24: for every (case, model) group of the batch and every k asked for,
\* the value is pass_at_k(n, c, k) with n the number of results of the group
\* and c the number of them whose score has compilation >= 1 and
\* tests >= 0.99, whatever their lint results.
C24_BatchCountsSuccesses ==
    BatchReturned =>
        /\ DOMAIN Unwrap(ret) = { KeyOf(call.results[i]) : i \in DOMAIN call.results }
        /\ \A key \in DOMAIN Unwrap(ret) :
              /\ DOMAIN Unwrap(ret)[key] = Range(call.k_values)
              /\ \A k \in DOMAIN Unwrap(ret)[key] :
                    RatEq(Unwrap(ret)[key][k],
                          pass_at_k(GroupSize(key), GroupSuccesses(key), k))

----------------------------------------------------------------------------
(* Code extraction (extract_code_from_markdown in                          *)
(* crates/forgetest-core/src/traits.rs).  A string is a sequence of        *)
(* tokens: the newline, the space, an opening or closing fence with its    *)
(* language tag (~~~ stands for three backticks), or the text of a line.   *)

MaxLines == 5

NL == "\n"
SP == " "
FenceTokens == {"~~~rust", "~~~RS", "~~~", "~~~python"}

\* The text of the i-th line of a response, when it is plain text
TextAt == <<"a", "b", "c", "d", "e", "f", "g", "h">>

\* str::lines: the pieces between newlines, without a final empty piece
RECURSIVE Split(_, _)
Split(s, piece) ==
    IF s = <<>> THEN <<piece>>
    ELSE IF Head(s) = NL THEN <<piece>> \o Split(Tail(s), <<>>)
    ELSE Split(Tail(s), Append(piece, Head(s)))

lines(s) ==
    LET pieces == Split(s, <<>>)
    IN  IF pieces[Len(pieces)] = <<>> THEN SubSeq(pieces, 1, Len(pieces) - 1) ELSE pieces

\* str::trim
RECURSIVE trim(_)
trim(l) ==
    IF l # <<>> /\ Head(l) = SP THEN trim(Tail(l))
    ELSE IF l # <<>> /\ l[Len(l)] = SP THEN trim(SubSeq(l, 1, Len(l) - 1))
    ELSE l

\* trimmed.starts_with("~~~")
starts_with_fence(trimmed) == trimmed # <<>> /\ Head(trimmed) \in FenceTokens

\* the language tag: the trimmed line without its leading backticks,
\* trimmed and in lower case
lang_of(trimmed) ==
    LET tag == CASE Head(trimmed) = "~~~rust" -> "rust"
                 [] Head(trimmed) = "~~~RS" -> "RS"
                 [] Head(trimmed) = "~~~python" -> "python"
                 [] OTHER -> ""
    IN  IF tag = "RS" THEN "rs" ELSE tag

\* [String]::join
RECURSIVE join(_, _)
join(strs, sep) ==
    IF strs = <<>> THEN <<>>
    ELSE IF Len(strs) = 1 THEN strs[1]
    ELSE strs[1] \o sep \o join(Tail(strs), sep)

ExtractStart ==
    [ rust_blocks |-> <<>>, generic_blocks |-> <<>>, in_block |-> FALSE,
      is_rust_block |-> FALSE, is_generic_block |-> FALSE, current_block |-> <<>> ]

\* The body of `for line in response.lines()`
ExtractStep(st, line) ==
    LET trimmed == trim(line)
    IN  IF ~st.in_block /\ starts_with_fence(trimmed)
        THEN [st EXCEPT !.in_block = TRUE,
                        !.is_rust_block = lang_of(trimmed) \in {"rust", "rs"},
                        !.is_generic_block = (lang_of(trimmed) = ""),
                        !.current_block = <<>>]
        ELSE IF st.in_block /\ trimmed = <<"~~~">>
        THEN [st EXCEPT !.in_block = FALSE,
                        !.rust_blocks =
                            IF st.is_rust_block THEN Append(@, st.current_block) ELSE @,
                        !.generic_blocks =
                            IF ~st.is_rust_block /\ st.is_generic_block
                            THEN Append(@, st.current_block) ELSE @,
                        !.current_block = <<>>]
        ELSE IF st.in_block
        THEN [st EXCEPT !.current_block =
                            (IF @ # <<>> THEN Append(@, NL) ELSE @) \o line]
        ELSE st

RECURSIVE ExtractLoop(_, _)
ExtractLoop(ls, st) ==
    IF ls = <<>> THEN st ELSE ExtractLoop(Tail(ls), ExtractStep(st, Head(ls)))

\* if in_block && !current_block.is_empty() { .. }
ExtractTruncated(st) ==
    IF st.in_block /\ st.current_block # <<>>
    THEN [st EXCEPT !.rust_blocks =
                        IF st.is_rust_block THEN Append(@, st.current_block) ELSE @,
                    !.generic_blocks =
                        IF ~st.is_rust_block /\ st.is_generic_block
                        THEN Append(@, st.current_block) ELSE @]
    ELSE st

\* The three returns of extract_code_from_markdown
ExtractSelect(st, response) ==
    IF st.rust_blocks # <<>> THEN join(st.rust_blocks, <<NL, NL>>)
    ELSE IF st.generic_blocks # <<>> THEN join(st.generic_blocks, <<NL, NL>>)
    ELSE response

extract_code_from_markdown(response) ==
    ExtractSelect(ExtractTruncated(ExtractLoop(lines(response), ExtractStart)), response)

\* The lines a response may have at position i
LineChoices(i) ==
    { <<>>, <<TextAt[i]>>, <<SP, "~~~">> } \cup { <<f>> : f \in FenceTokens }

RECURSIVE LineSeqs(_)
LineSeqs(n) ==
    IF n = 0 THEN { <<>> }
    ELSE { Append(ls, l) : ls \in LineSeqs(n - 1), l \in LineChoices(n) }

\* The responses have up to MaxLines lines, with or without a final newline
ExtractInit ==
    /\ EngineIdle
    /\ NoComparison
    /\ call \in { [fn |-> "extract_code_from_markdown", response |-> join(ls, <<NL>>) \o tail] :
                    ls \in UNION { LineSeqs(n) : n \in 0..MaxLines },
                    tail \in { <<>>, <<NL>> } }
    /\ ret = None
    /\ sandbox = None
    /\ cli = None

\* extract_code_from_markdown(response) returns
Extract ==
    /\ call # None
    /\ call.fn = "extract_code_from_markdown"
    /\ ret = None
    /\ ret' = Some(extract_code_from_markdown(call.response))
    /\ UNCHANGED <<call, sandbox, cli>>
    /\ UNCHANGED compare_vars
    /\ UNCHANGED engine_vars

ExtractSpec == ExtractInit /\ [][Extract]_vars

----------------------------------------------------------------------------
(* The fenced blocks of a response, read off its lines                     *)

ExtractReturned == call # None /\ call.fn = "extract_code_from_markdown" /\ ret # None

IsOpeningFence(l) == starts_with_fence(trim(l))
IsClosingFence(l) == trim(l) = <<"~~~">>

TagOf(l) ==
    IF lang_of(trim(l)) \in {"rust", "rs"} THEN "target"
    ELSE IF lang_of(trim(l)) = "" THEN "untagged"
    ELSE "other"

SetMin(S) == CHOOSE m \in S : \A x \in S : m <= x

\* The blocks that start at or after line i: each runs from the first
\* opening fence to the next closing fence, or to the end of the response
RECURSIVE BlocksFrom(_, _)
BlocksFrom(ls, i) ==
    LET opens == { j \in i..Len(ls) : IsOpeningFence(ls[j]) }
    IN  IF opens = {} THEN <<>>
        ELSE LET j == SetMin(opens)
                 closes == { m \in (j + 1)..Len(ls) : IsClosingFence(ls[m]) }
                 m == IF closes = {} THEN Len(ls) + 1 ELSE SetMin(closes)
             IN  << [ tag |-> TagOf(ls[j]),
                      inner |-> SubSeq(ls, j + 1, m - 1),
                      closed |-> closes # {} ] >>
                    \o BlocksFrom(ls, m + 1)

Blocks == BlocksFrom(lines(call.response), 1)
TargetBlocks == SelectSeq(Blocks, LAMBDA b : b.tag = "target")
UntaggedBlocks == SelectSeq(Blocks, LAMBDA b : b.tag = "untagged")

\* The text between the fences of a block
InnerText(b) == join(b.inner, <<NL>>)
InnerTexts(bs) == [ i \in DOMAIN bs |-> InnerText(bs[i]) ]

\* The tokens of a string other than its newlines
Content(s) == SelectSeq(s, LAMBDA t : t # NL)

\* The plain-text tokens of the lines of a block
TextTokens(b) ==
    { t \in Range(TextAt) : \E i \in DOMAIN b.inner : t \in Range(b.inner[i]) }

\* C25: for a response with one or more target-tagged blocks the output is
\* exactly the inner texts of those blocks, in source order, joined by one
\* blank line.
C25_ExactInnerTexts ==
    (ExtractReturned /\ TargetBlocks # <<>>) =>
        Unwrap(ret) = join(InnerTexts(TargetBlocks), <<NL, NL>>)

\* C26: with a target-tagged block no text of an untagged block is in the
\* output, wherever the untagged block stands; with none, the output is made
\* of the lines of the untagged blocks, in source order; with no fence at all
\* the output is the response itself.
C26_UntaggedOnlyWithoutTagged ==
    ExtractReturned =>
        /\ TargetBlocks # <<>> =>
              \A i \in DOMAIN UntaggedBlocks :
                  TextTokens(UntaggedBlocks[i]) \cap Range(Unwrap(ret)) = {}
        /\ (TargetBlocks = <<>> /\ UntaggedBlocks # <<>>) =>
              Content(Unwrap(ret)) = Content(join(InnerTexts(UntaggedBlocks), <<NL>>))
        /\ Blocks = <<>> => Unwrap(ret) = call.response

\* The response with a closing fence as its last line
AsIfClosed(s) ==
    IF s = <<>> \/ s[Len(s)] = NL THEN s \o <<"~~~">> ELSE s \o <<NL, "~~~">>

LastBlock == Blocks[Len(Blocks)]
UnclosedTarget == Blocks # <<>> /\ LastBlock.tag = "target" /\ ~LastBlock.closed

\* C27: the output for a response that ends inside a target-tagged block is
\* the output for the same response closed by a fence, and holds the text of
\* the block.
C27_UnclosedAsIfClosed ==
    (ExtractReturned /\ UnclosedTarget) =>
        /\ Unwrap(ret) = extract_code_from_markdown(AsIfClosed(call.response))
        /\ TextTokens(LastBlock) \subseteq Range(Unwrap(ret))

----------------------------------------------------------------------------
(* The runner's sandbox (Sandbox in crates/forgetest-runner/src/sandbox.rs) *)
(* as LocalRunner::run_tests drives it: new, write_source, write_test.     *)
(* A file's content is a string: a sequence of tokens, each a newline or   *)
(* an item of source text.                                                 *)

MaxItems == 2

CodeItems == { "pub fn add() {}", "fn main() {}", "fn main_loop() {}", "mod helper;" }
TestItems == { "#[test] fn test_add() {}", "mod tests { use super::*; }" }

\* code.contains("fn main"), item by item
contains_fn_main(code) ==
    \E i \in DOMAIN code : code[i] \in { "fn main() {}", "fn main_loop() {}" }

\* Sandbox::new: a manifest and an empty src/lib.rs
Sandbox_new ==
    [ files |-> [ f \in {"Cargo.toml", "src/lib.rs"} |->
                    IF f = "Cargo.toml" THEN <<"[package]", NL, "[dependencies]", NL>>
                    ELSE <<>> ],
      calls |-> <<"new">> ]

\* std::fs::write(path, content)
fs_write(files, path, content) ==
    [ f \in DOMAIN files \cup {path} |-> IF f = path THEN content ELSE files[f] ]

write_source(sb, code) ==
    LET filename == IF contains_fn_main(code) THEN "src/main.rs" ELSE "src/lib.rs"
    IN  [ files |-> fs_write(sb.files, filename, code),
          calls |-> Append(sb.calls, "write_source") ]

write_test(sb, test_code) ==
    LET existing == IF "src/lib.rs" \in DOMAIN sb.files
                    THEN sb.files["src/lib.rs"] ELSE <<>>
        combined == existing \o <<NL, NL>> \o test_code
    IN  [ files |-> fs_write(sb.files, "src/lib.rs", combined),
          calls |-> Append(sb.calls, "write_test") ]

TestRequests ==
    { [fn |-> "run_tests", code |-> c, test_code |-> t] :
        c \in UNION { [1..n -> CodeItems] : n \in 0..MaxItems },
        t \in UNION { [1..n -> TestItems] : n \in 1..MaxItems } }

SandboxInit ==
    /\ EngineIdle
    /\ NoComparison
    /\ call \in TestRequests
    /\ ret = None
    /\ sandbox = None
    /\ cli = None

\* let sandbox = self.create_sandbox(..)?
CreateSandbox ==
    /\ call # None /\ call.fn = "run_tests"
    /\ sandbox = None
    /\ sandbox' = Sandbox_new
    /\ UNCHANGED <<call, ret, cli>>
    /\ UNCHANGED compare_vars
    /\ UNCHANGED engine_vars

\* sandbox.write_source(&request.code)?
WriteSource ==
    /\ sandbox # None
    /\ sandbox.calls = <<"new">>
    /\ sandbox' = write_source(sandbox, call.code)
    /\ UNCHANGED <<call, ret, cli>>
    /\ UNCHANGED compare_vars
    /\ UNCHANGED engine_vars

\* sandbox.write_test(&request.test_code)?
WriteTest ==
    /\ sandbox # None
    /\ sandbox.calls = <<"new", "write_source">>
    /\ sandbox' = write_test(sandbox, call.test_code)
    /\ UNCHANGED <<call, ret, cli>>
    /\ UNCHANGED compare_vars
    /\ UNCHANGED engine_vars

SandboxNext == CreateSandbox \/ WriteSource \/ WriteTest

SandboxSpec == SandboxInit /\ [][SandboxNext]_vars

\* a occurs in b as a run of consecutive tokens
IsInfix(a, b) ==
    \E i \in 0..(Len(b) - Len(a)) : SubSeq(b, i + 1, i + Len(a)) = a

\* C28: after write_source(code) and write_test(tests) on a fresh sandbox,
\* one source file holds both the generated code and the tests, whether the
\* code went to the library or to the binary entry point.
C28_TestsInFileOfCode ==
    (sandbox # None /\ sandbox.calls = <<"new", "write_source", "write_test">>) =>
        \E f \in DOMAIN sandbox.files \ {"Cargo.toml"} :
            /\ IsInfix(call.code, sandbox.files[f])
            /\ IsInfix(call.test_code, sandbox.files[f])

----------------------------------------------------------------------------
(* How each provider backend turns the HTTP status of a response into a    *)
(* ProviderError (generate in crates/forgetest-providers/src/anthropic.rs, *)
(* openai.rs and ollama.rs).                                               *)

Backends == {"anthropic", "openai", "ollama"}
HttpStatuses == {200, 400, 401, 403, 404, 429, 500, 503}

\* The retry-after header: absent, seconds, or an HTTP date
RetryAfterHeaders == { None, Some(<<"3">>), Some(<<"1", "2">>), Some(<<"Wed, 21 Oct">>) }

\* Response bodies: plain text, or the JSON error object of the Anthropic API
HttpBodies == { <<"upstream unavailable">>, <<"{error.message:", "overloaded", "}">> }

DefaultRetryAfterSecs == 5

\* headers().get("retry-after") .. .parse::<u64>().ok().unwrap_or(5) * 1000
retry_after_of(header) ==
    LET parsed == IF IsSome(header) THEN ParseU64(Unwrap(header)) ELSE None
    IN  (IF IsSome(parsed) THEN Unwrap(parsed) ELSE DefaultRetryAfterSecs) * 1000

\* serde_json::from_str::<AnthropicError>(&body).map(|e| e.error.message).unwrap_or(body)
anthropic_message(body) ==
    IF Len(body) = 3 /\ body[1] = "{error.message:" /\ body[3] = "}"
    THEN <<body[2]>> ELSE body

NoStatusError == [variant |-> "None"]

\* AnthropicProvider::generate, from the status to the last status test
anthropic_status(resp, model) ==
    IF resp.status = 429 THEN RateLimited(retry_after_of(resp.retry_after))
    ELSE IF resp.status = 401 THEN AuthenticationFailed(resp.body)
    ELSE IF resp.status = 404 THEN ModelNotFound(<<model>>)
    ELSE IF resp.status >= 400 THEN ApiError(resp.status, anthropic_message(resp.body))
    ELSE NoStatusError

\* OpenAiProvider::generate, from the status to the last status test
openai_status(resp, model) ==
    IF resp.status = 429 THEN RateLimited(retry_after_of(resp.retry_after))
    ELSE IF resp.status = 401 THEN AuthenticationFailed(resp.body)
    ELSE IF resp.status >= 400 THEN ApiError(resp.status, resp.body)
    ELSE NoStatusError

\* OllamaProvider::generate, from the status to the last status test
ollama_status(resp, model) ==
    IF resp.status = 404
    THEN ModelNotFound(<<"Model '", model, "' not found locally. Pull it with: ollama pull ", model>>)
    ELSE IF resp.status >= 400 THEN ApiError(resp.status, resp.body)
    ELSE NoStatusError

StatusCalls ==
    { [fn |-> "generate", backend |-> b, model |-> "m1",
       response |-> [status |-> s, retry_after |-> h, body |-> body]] :
        b \in Backends, s \in HttpStatuses, h \in RetryAfterHeaders, body \in HttpBodies }

StatusInit ==
    /\ EngineIdle
    /\ NoComparison
    /\ call \in StatusCalls
    /\ ret = None
    /\ sandbox = None
    /\ cli = None

\* generate reaches the end of its status tests
GenerateStatus ==
    /\ call # None
    /\ call.fn = "generate"
    /\ ret = None
    /\ ret' = Some(CASE call.backend = "anthropic" -> anthropic_status(call.response, call.model)
                     [] call.backend = "openai" -> openai_status(call.response, call.model)
                     [] call.backend = "ollama" -> ollama_status(call.response, call.model))
    /\ UNCHANGED <<call, sandbox, cli>>
    /\ UNCHANGED compare_vars
    /\ UNCHANGED engine_vars

StatusSpec == StatusInit /\ [][GenerateStatus]_vars

\* C29: whatever the backend, a 401 becomes the permanent
\* AuthenticationFailed, a 404 the permanent ModelNotFound, a 429 the
\* transient RateLimited with the retry_after_ms of the retry-after header
\* (5 s without a usable header), any other status >= 400 the transient
\* ApiError of that status, and a status below 400 no error.
C29_SameStatusMapping ==
    (call # None /\ call.fn = "generate" /\ ret # None) =>
        LET e == Unwrap(ret)
            status == call.response.status
        IN  /\ status = 401 => e.variant = "AuthenticationFailed" /\ is_permanent(e)
            /\ status = 404 => e.variant = "ModelNotFound" /\ is_permanent(e)
            /\ status = 429 =>
                  /\ e.variant = "RateLimited" /\ ~is_permanent(e)
                  /\ e.retry_after_ms \in {3000, 12000, 5000}
            /\ (status >= 400 /\ status \notin {401, 404, 429}) =>
                  e.variant = "ApiError" /\ e.status = status /\ ~is_permanent(e)
            /\ status < 400 => e = NoStatusError

----------------------------------------------------------------------------
(* The run command (execute in crates/forgetest-cli/src/commands/run.rs):  *)
(* it validates its arguments, loads the configuration and the eval set,   *)
(* parses the models and the Pass@k values, creates the providers, builds  *)
(* the engine and awaits engine.run.                                       *)

\* --temperature, in tenths; nan for a NaN
Temperatures ==
    { [nan |-> TRUE, tenths |-> 0] } \cup
    { [nan |-> FALSE, tenths |-> x] : x \in {0 - 1, 8, 21} }

\* (0.0..=2.0).contains(&temperature)
temperature_in_range(t) == ~t.nan /\ 0 <= t.tenths /\ t.tenths <= 20

\* ForgetestConfig: its providers table, defaults and retry settings
FileConfigs ==
    { [providers |-> ps, default_provider |-> "anthropic", default_model |-> "m1",
       max_retries |-> 1, retry_delay_ms |-> 1000] :
        ps \in { {"anthropic"}, {"anthropic", "openai"} } }

\* The arguments of execute; a piece of --models between commas is
\* "provider/model" or "model"
RunArgs ==
    [ parallelism : {0, 1},
      temperature : Temperatures,
      models_str : { None, Some(<< <<"openai", "/", "m1">> >>),
                     Some(<< <<"m1">>, <<"openai", "/", "m1">> >>) },
      pass_k_str : { << <<"1">> >>, << <<"0">> >>, << <<"x">> >> },
      config : FileConfigs,
      eval_set_file : { None,
                        Some(<<[id |-> "add", should_pass_tests |-> TRUE,
                                test_file |-> Some("tests")]>>) } ]

\* s.trim().splitn(2, '/') of each piece, or the configured default model
parse_models(models_str, cfg) ==
    IF IsSome(models_str)
    THEN [ i \in DOMAIN Unwrap(models_str) |->
             LET parts == Unwrap(models_str)[i]
             IN  IF Len(parts) = 3
                 THEN [provider |-> parts[1], model |-> parts[3]]
                 ELSE [provider |-> cfg.default_provider, model |-> parts[1]] ]
    ELSE << [provider |-> cfg.default_provider, model |-> cfg.default_model] >>

\* The Pass@k values, or the error of the first check that fails
parse_pass_k(pass_k_str) ==
    IF \E i \in DOMAIN pass_k_str : ~IsSome(ParseU64(pass_k_str[i]))
    THEN [err |-> Some("invalid pass@k value"), value |-> <<>>]
    ELSE LET pass_k == [ i \in DOMAIN pass_k_str |-> Unwrap(ParseU64(pass_k_str[i])) ]
         IN  IF pass_k = <<>>
             THEN [err |-> Some("pass@k must have at least one value"), value |-> <<>>]
             ELSE IF \E i \in DOMAIN pass_k : pass_k[i] < 1
             THEN [err |-> Some("pass@k values must be at least 1"), value |-> <<>>]
             ELSE [err |-> None, value |-> pass_k]

\* Mutant of create_providers: a provider missing from the config is skipped
RECURSIVE create_providers_SkipMissing(_, _, _)
create_providers_SkipMissing(ms, cfg, created) ==
    IF ms = <<>> THEN [err |-> None, providers |-> created]
    ELSE IF Head(ms).provider \in cfg.providers
    THEN create_providers_SkipMissing(Tail(ms), cfg, created \cup {Head(ms).provider})
    ELSE create_providers_SkipMissing(Tail(ms), cfg, created)

\* for model_spec in &models { .. create_provider .. or bail!("provider .. not found in config") }
RECURSIVE create_providers(_, _, _)
create_providers(ms, cfg, created) ==
    IF ms = <<>> THEN [err |-> None, providers |-> created]
    ELSE IF Head(ms).provider \in created
    THEN create_providers(Tail(ms), cfg, created)
    ELSE IF Head(ms).provider \in cfg.providers
    THEN create_providers(Tail(ms), cfg, created \cup {Head(ms).provider})
    ELSE [err |-> Some("provider not found in config"), providers |-> created]

\* execute up to EvalEngine::new: the first error, or the engine's parts
prepare(args) ==
    LET ms == parse_models(args.models_str, args.config)
        pk == parse_pass_k(args.pass_k_str)
        ps == create_providers(ms, args.config, {})
        err == IF ~(args.parallelism >= 1) THEN Some("parallelism must be at least 1")
               ELSE IF ~temperature_in_range(args.temperature)
               THEN Some("temperature must be between 0.0 and 2.0")
               ELSE IF ~IsSome(args.eval_set_file) THEN Some("failed to read eval set")
               ELSE IF IsSome(pk.err) THEN pk.err
               ELSE ps.err
    IN  [ err |-> err, models |-> ms, providers |-> ps.providers,
          engine_config |-> [ parallelism |-> args.parallelism,
                              pass_k |-> pk.value,
                              max_retries_per_case |-> args.config.max_retries,
                              retry_delay |-> args.config.retry_delay_ms ] ]

CliInit ==
    /\ EngineIdle
    /\ NoComparison
    /\ call = None
    /\ ret = None
    /\ sandbox = None
    /\ cli \in { [args |-> a, pc |-> "start", result |-> None] : a \in RunArgs }

\* execute, from its start to its first error or to EvalEngine::new
Execute ==
    /\ cli # None
    /\ cli.pc = "start"
    /\ LET p == prepare(cli.args)
       IN  IF IsSome(p.err)
           THEN /\ cli' = [cli EXCEPT !.pc = "returned",
                                      !.result = Some([ok |-> FALSE, message |-> Unwrap(p.err)])]
                /\ UNCHANGED <<config, providers>>
           ELSE /\ cli' = [cli EXCEPT !.pc = "engine"]
                /\ config' = p.engine_config
                /\ providers' = p.providers
    /\ UNCHANGED <<eval_set, models, run_pc, futures, semaphore, results, completed,
                   failed, total, events, report>>
    /\ UNCHANGED <<call, ret, sandbox>>
    /\ UNCHANGED compare_vars

\* engine.run(eval_set, &models, &reporter), up to its first suspension
ExecuteRun ==
    /\ cli # None
    /\ cli.pc = "engine"
    /\ Run(Unwrap(cli.args.eval_set_file), prepare(cli.args).models)

\* engine.run has returned the report: execute saves it and returns Ok
ExecuteReturns ==
    /\ cli # None
    /\ cli.pc = "engine"
    /\ run_pc = "returned"
    /\ cli' = [cli EXCEPT !.pc = "returned", !.result = Some([ok |-> TRUE, message |-> ""])]
    /\ UNCHANGED <<call, ret, sandbox>>
    /\ UNCHANGED compare_vars
    /\ UNCHANGED engine_vars

CliNext ==
    \/ Execute
    \/ ExecuteRun
    \/ \E t \in Tasks : Acquire(t)
    \/ \E t \in Tasks, out \in GenerateOutcomes : GenerateReturns(t, out)
    \/ \E t \in Tasks : SleepReturns(t)
    \/ \E t \in Tasks, out \in CompileOutcomes : CompileReturns(t, out)
    \/ \E t \in Tasks, out \in TestOutcomes : TestReturns(t, out)
    \/ \E t \in Tasks, out \in ClippyOutcomes : ClippyReturns(t, out)
    \/ SetComplete
    \/ ExecuteReturns

CliSpec == CliInit /\ [][CliNext]_vars

\* The configuration errors of C30
ConfigurationError ==
    \/ cli.args.parallelism < 1
    \/ ~temperature_in_range(cli.args.temperature)
    \/ \E i \in DOMAIN parse_models(cli.args.models_str, cli.args.config) :
          parse_models(cli.args.models_str, cli.args.config)[i].provider
              \notin cli.args.config.providers

\* C30: when parallelism < 1, the temperature is out of range or a requested
\* model names a provider missing from the configuration, the run command
\* goes from its start straight to returning an error: no engine is built,
\* engine.run is not called, no task is created, no event is reported and
\* so no provider.generate call is made.
C30_FailFast ==
    (cli # None /\ ConfigurationError) =>
        /\ cli.pc \in {"start", "returned"}
        /\ cli.pc = "start" => ENABLED Execute
        /\ cli.pc = "returned" => ~Unwrap(cli.result).ok
        /\ run_pc = "idle"
        /\ providers = {}
        /\ futures = <<>>
        /\ events = <<>>

\* C30 witness: the command has returned "provider not found in config" for
\* a request of two models, the first with a configured provider, with valid
\* parallelism and temperature, and nothing was scheduled.
C30_Witness ==
    /\ cli # None
    /\ cli.pc = "returned"
    /\ cli.args.parallelism >= 1
    /\ temperature_in_range(cli.args.temperature)
    /\ Len(parse_models(cli.args.models_str, cli.args.config)) = 2
    /\ Unwrap(cli.result) = [ok |-> FALSE, message |-> "provider not found in config"]
    /\ run_pc = "idle"
    /\ futures = <<>>

----------------------------------------------------------------------------
(* The timeout of a task's stages: the engine puts the case's timeout in   *)
(* each stage request (engine.rs 168-216) and LocalRunner::create_sandbox  *)
(* turns the request's timeout into the sandbox's (lib.rs 53-60).          *)
(* Durations are in seconds.                                               *)

EngineDefaultTimeoutSecs == 60
RunnerDefaultTimeoutSecs == 120

\* let timeout_secs = case.timeout_secs.unwrap_or(60)
request_timeout_secs(case_timeout_secs) ==
    IF IsSome(case_timeout_secs) THEN Unwrap(case_timeout_secs)
    ELSE EngineDefaultTimeoutSecs

\* LocalRunner::create_sandbox: the timeout the sandbox is made with
create_sandbox(default_timeout, timeout_secs) ==
    IF timeout_secs > 0 THEN timeout_secs ELSE default_timeout

\* A case's timeout_secs and the default_timeout of the runner
StageCalls ==
    { [fn |-> "stages", timeout_secs |-> ts, default_timeout |-> dt] :
        ts \in {None} \cup { Some(s) : s \in {0, 1, 30, 60, 120, 300} },
        dt \in {RunnerDefaultTimeoutSecs, 10, 30, 300} }

StageInit ==
    /\ EngineIdle
    /\ NoComparison
    /\ call \in StageCalls
    /\ ret = None
    /\ sandbox = None
    /\ cli = None

\* The stage that can follow the stages run so far: compile, then the tests
\* or not, then the lint
StageFollows(done, stage) ==
    CASE stage = "compile" -> done = <<>>
      [] stage = "test" -> Len(done) = 1
      [] stage = "clippy" -> Len(done) \in {1, 2} /\ done[Len(done)].stage # "clippy"

\* runner.compile / run_tests / run_clippy makes its sandbox; ret records the
\* timeout of each stage's sandbox
RunStage(stage) ==
    /\ call # None
    /\ call.fn = "stages"
    /\ StageFollows(ret, stage)
    /\ ret' = Append(ret, [ stage |-> stage,
                            timeout |-> create_sandbox(call.default_timeout,
                                            request_timeout_secs(call.timeout_secs)) ])
    /\ UNCHANGED <<call, sandbox, cli>>
    /\ UNCHANGED compare_vars
    /\ UNCHANGED engine_vars

StageNext == \E stage \in {"compile", "test", "clippy"} : RunStage(stage)

StageSpec == StageInit /\ [][StageNext]_vars

\* C31 as stated: every stage of a task runs with the case's timeout_secs
\* when the case sets one, and with the runner's default timeout when the
\* case sets none.
C31_StageTimeout ==
    (call # None /\ call.fn = "stages") =>
        \A i \in DOMAIN ret :
            ret[i].timeout = IF IsSome(call.timeout_secs)
                             THEN Unwrap(call.timeout_secs)
                             ELSE call.default_timeout

----------------------------------------------------------------------------
(* The retry loop under long delays: the engine with a retry budget of up  *)
(* to BackoffRetries, configured delays below, near and above the cap, and *)
(* a provider whose rate-limit hints are short or longer than the cap.     *)

BackoffRetries == 2

\* EvalEngineConfig.retry_delay, in milliseconds (retry_delay_ms of the file)
BackoffDelays == {1000, 40000, 70000}

BackoffErrors ==
    { RateLimited(2000),
      RateLimited(90000),
      ApiError(500, <<"overloaded">>),
      ApiError(429, <<"rate limited", ", retry after ", "5", "ms">>),
      ModelNotFound(<<"m1">>) }

BackoffOutcomes ==
    { [ok |-> TRUE, response |-> r] : r \in Responses } \cup
    { [ok |-> FALSE, error |-> e] : e \in BackoffErrors }

BackoffInit ==
    /\ config \in [ parallelism : {1, 2},
                     pass_k : {<<1>>},
                     max_retries_per_case : 0..BackoffRetries,
                     retry_delay : BackoffDelays ]
    /\ providers = {"anthropic"}
    /\ eval_set = <<>>
    /\ models = <<>>
    /\ run_pc = "idle"
    /\ futures = <<>>
    /\ semaphore = 0
    /\ results = <<>>
    /\ completed = 0
    /\ failed = 0
    /\ total = 0
    /\ events = <<>>
    /\ report = None
    /\ NoComparison
    /\ NoCall

BackoffNext ==
    \/ \E ms \in { <<[provider |-> "anthropic", model |-> "m1"]>>,
                    <<[provider |-> "anthropic", model |-> "m1"],
                      [provider |-> "anthropic", model |-> "m2"]>> } :
          Run(<<[id |-> "add", should_pass_tests |-> TRUE, test_file |-> Some("tests")]>>, ms)
    \/ \E t \in Tasks : Acquire(t)
    \/ \E t \in Tasks, out \in BackoffOutcomes : GenerateReturns(t, out)
    \/ \E t \in Tasks : SleepReturns(t)
    \/ \E t \in Tasks, out \in CompileOutcomes : CompileReturns(t, out)
    \/ \E t \in Tasks, out \in TestOutcomes : TestReturns(t, out)
    \/ \E t \in Tasks, out \in ClippyOutcomes : ClippyReturns(t, out)
    \/ SetComplete

BackoffSpec == BackoffInit /\ [][BackoffNext]_vars

RECURSIVE Pow2(_)
Pow2(n) == IF n = 0 THEN 1 ELSE 2 * Pow2(n - 1)

\* The tasks asleep in tokio::time::sleep(retry_delay): the sleep before the
\* retry-th retry lasts the task's retry_delay
Sleeping == { t \in Tasks : futures[t].pc = "backoff" }

\* C32 as stated: for a task that got no rate-limit hint, the sleep before
\* the i-th retry lasts min(retry_delay * 2^(i-1), 60 s), whatever the
\* configured retry_delay.
C32_DoublingSchedule ==
    \A t \in Sleeping :
        futures[t].rate_limit_retries = 0 =>
            futures[t].retry_delay =
                Min(config.retry_delay * Pow2(futures[t].retry - 1), BackoffCapMs)

\* C33: when a provider call of a task fails with a rate-limit error and the
\* task goes on to a retry, the sleep it starts lasts exactly the error's
\* retry_after_ms, whatever delay the task had scheduled; when it fails with
\* any other transient error, the sleep lasts the delay it had scheduled.
C33_HintOverridesNextDelay ==
    [][\A t \in Tasks :
          (futures[t].pc = "generating" /\ futures'[t].pc = "backoff") =>
              LET e == Unwrap(futures'[t].last_error)
              IN  futures'[t].retry_delay =
                      IF e.variant = "RateLimited" THEN e.retry_after_ms
                      ELSE futures[t].retry_delay]_vars

\* C33 witness: a task whose doubled delay had reached the cap sleeps 2 s
\* before its second retry on a rate-limit hint, while another task, failed
\* on an API error whose message quotes a rate-limit text, sleeps its own
\* scheduled delay.
C33_Witness ==
    \E t, u \in Sleeping :
        /\ config.retry_delay = 40000
        /\ futures[t].retry = 2
        /\ futures[t].last_error = Some(RateLimited(2000))
        /\ futures[t].retry_delay = 2000
        /\ Unwrap(futures[u].last_error).variant = "ApiError"
        /\ Contains(to_string(Unwrap(futures[u].last_error)), "rate limited")
        /\ futures[u].retry_delay = 40000

\* C38 as stated: no backoff sleep lasts more than 60 seconds, whatever the
\* configured retry_delay and the retry_after_ms hints of the provider.
C38_SleepAtMostCap ==
    \A t \in Sleeping : futures[t].retry_delay <= BackoffCapMs

StagePcs == {"compiling", "testing", "linting"}

\* C34: compile starts only on a successful provider.generate; from then on
\* the task only moves forward through compile, test and lint to its end, so
\* each stage is invoked at most once, and it makes no further generate call
\* (a stage is never retried, whatever the retries of the generation).
C34_StagesRunOnce ==
    [][\A t \in Tasks :
          LET a == futures[t].pc
              b == futures'[t].pc
          IN  /\ (b = "compiling" /\ a # "compiling") =>
                    /\ a = "generating"
                    /\ futures'[t].generated
                    /\ IsSome(futures'[t].response)
              /\ a = "compiling" => b \in {"compiling", "testing", "linting", "done", "failed"}
              /\ a = "testing" => b \in {"testing", "linting", "done", "failed"}
              /\ a = "linting" => b \in {"linting", "done", "failed"}
              /\ a \in TerminalPcs => futures'[t] = futures[t]
              /\ a \in StagePcs \cup TerminalPcs =>
                    futures'[t].gen_calls = futures[t].gen_calls]_vars

\* C34 witness: after two failed provider calls and a third that succeeded,
\* a task has compiled and tested its code and is in the lint stage, while
\* another task has ended on a stage error.
C34_Witness ==
    \E t, u \in Tasks :
        /\ futures[t].pc = "linting"
        /\ futures[t].gen_calls = 3
        /\ futures[t].sleeps = 2
        /\ IsSome(futures[t].test_execution)
        /\ futures[u].pc = "failed"
        /\ futures[u].generated

\* C36: a step of one task changes no other task; a task that is admitted
\* starts its retry loop afresh (no retry made, the configured delay, no
\* error) whatever the other tasks have been through; and a task that wakes
\* from a backoff sleep goes on with its own doubled delay and its own count
\* of provider calls.
C36_NoSharedRetryState ==
    [][\A t \in Tasks :
          /\ futures'[t] # futures[t] =>
                \A u \in Tasks \ {t} : futures'[u] = futures[u]
          /\ (futures[t].pc = "await_permit" /\ futures'[t].pc = "generating") =>
                /\ futures'[t].retry = 0
                /\ futures'[t].retry_delay = config.retry_delay
                /\ futures'[t].last_error = None
                /\ futures'[t].gen_calls = 1
                /\ futures'[t].sleeps = 0
          /\ (futures[t].pc = "backoff" /\ futures'[t].pc = "generating") =>
                /\ futures'[t].retry = futures[t].retry
                /\ futures'[t].retry_delay = Min(2 * futures[t].retry_delay, BackoffCapMs)
                /\ futures'[t].gen_calls = futures[t].gen_calls + 1
          /\ futures[t].pc \in {"generating", "backoff"} =>
                /\ futures[t].sleeps = futures[t].retry
                /\ futures[t].retry <= config.max_retries_per_case]_vars

\* C36 witness: two tasks run side by side; one sleeps before its second
\* retry on a 90 s rate-limit hint, the other, admitted after the first had
\* failed twice, sleeps the configured 1 s before its first retry.
C36_Witness ==
    \E t, u \in Sleeping :
        /\ config.retry_delay = 1000
        /\ futures[t].retry = 2
        /\ futures[t].rate_limit_retries = 2
        /\ futures[t].retry_delay = 90000
        /\ futures[u].retry = 1
        /\ futures[u].rate_limit_retries = 0
        /\ futures[u].retry_delay = 1000

----------------------------------------------------------------------------
(* Admission under fair scheduling: every call a task waits for returns    *)
(* and the run future is polled again whenever a task can take a step, so  *)
(* a step that stays possible is eventually taken.                         *)

AdmissionOutcomes ==
    { [ok |-> TRUE, response |-> r] : r \in Responses } \cup
    { [ok |-> FALSE, error |-> e] :
        e \in {ApiError(500, <<"overloaded">>), ModelNotFound(<<"m1">>)} }

AdmissionInit ==
    /\ config \in [ parallelism : {1, 2},
                     pass_k : {<<1>>},
                     max_retries_per_case : {0, 1},
                     retry_delay : RetryDelayChoices ]
    /\ providers = {"anthropic"}
    /\ eval_set = <<>>
    /\ models = <<>>
    /\ run_pc = "idle"
    /\ futures = <<>>
    /\ semaphore = 0
    /\ results = <<>>
    /\ completed = 0
    /\ failed = 0
    /\ total = 0
    /\ events = <<>>
    /\ report = None
    /\ NoComparison
    /\ NoCall

AdmissionNext ==
    \/ Run(<<[id |-> "add", should_pass_tests |-> TRUE, test_file |-> Some("tests")]>>,
           <<[provider |-> "anthropic", model |-> "m1"],
             [provider |-> "anthropic", model |-> "m2"]>>)
    \/ \E t \in Tasks : Acquire(t)
    \/ \E t \in Tasks, out \in AdmissionOutcomes : GenerateReturns(t, out)
    \/ \E t \in Tasks : SleepReturns(t)
    \/ \E t \in Tasks, out \in CompileOutcomes : CompileReturns(t, out)
    \/ \E t \in Tasks, out \in TestOutcomes : TestReturns(t, out)
    \/ \E t \in Tasks, out \in ClippyOutcomes : ClippyReturns(t, out)
    \/ SetComplete

AdmissionSpec == AdmissionInit /\ [][AdmissionNext]_vars /\ WF_vars(AdmissionNext)

\* C37: with parallelism >= 1, a task that waits for an admission permit is
\* eventually admitted, whatever the other tasks do (result, permanent
\* provider error, exhausted retry budget, stage error); and once the run
\* has returned every permit is back in the semaphore.
C37_EventuallyAdmitted ==
    /\ \A t \in 1..MaxTasks :
          (config.parallelism >= 1 /\ t \in Tasks /\ futures[t].pc = "await_permit")
              ~> (t \in Tasks /\ futures[t].pc # "await_permit")
    /\ [](run_pc = "returned" =>
            semaphore = config.parallelism /\ \A t \in Tasks : ~futures[t].permit)

\* C37 witness: with one permit, a task was admitted after the task before
\* it had ended on a stage error, and has called its provider.
C37_Witness ==
    \E t, u \in Tasks :
        /\ config.parallelism = 1
        /\ futures[t].pc = "failed"
        /\ \E i \in ErrorEventsOf(t) : events[i].error \in StageErrorStrings
        /\ futures[u].pc \in InFlightPcs
        /\ futures[u].permit

----------------------------------------------------------------------------
(* The parser of cargo test's output (test_runner.rs 41-164).  A line is a *)
(* sequence of tokens; ":", ";" and "." are tokens of their own, a number  *)
(* is a run of digit tokens, and the tokens "test " and "test result" are  *)
(* the two that begin with the text "test ".                               *)

MaxOutputLines == 4

\* str::split(sep): the pieces between separators, empty ones included
RECURSIVE SplitOn(_, _, _)
SplitOn(s, sep, piece) ==
    IF s = <<>> THEN <<piece>>
    ELSE IF Head(s) = sep THEN <<piece>> \o SplitOn(Tail(s), sep, <<>>)
    ELSE SplitOn(Tail(s), sep, Append(piece, Head(s)))

\* .flat_map(|s| s.split('.'))
RECURSIVE FlatSplit(_, _)
FlatSplit(pieces, sep) ==
    IF pieces = <<>> THEN <<>>
    ELSE SplitOn(Head(pieces), sep, <<>>) \o FlatSplit(Tail(pieces), sep)

\* The closure `extract` of parse_summary_line
extract(after_colon, label) ==
    LET parts == FlatSplit(SplitOn(after_colon, ";", <<>>), ".")
        hits == SelectSeq(parts, LAMBDA s : trim(s) # <<>> /\ trim(s)[Len(trim(s))] = label)
        n == IF hits = <<>> THEN None
             ELSE ParseU64(trim(SubSeq(trim(hits[1]), 1, Len(trim(hits[1])) - 1)))
    IN  IF IsSome(n) THEN Unwrap(n) ELSE 0

parse_summary_line(line) ==
    LET pieces == SplitOn(line, ":", <<>>)
    IN  IF Len(pieces) < 2 THEN None
        ELSE Some(<<extract(pieces[2], "passed"), extract(pieces[2], "failed"),
                    extract(pieces[2], "ignored")>>)

\* trimmed.starts_with("test ") && trimmed.ends_with(" ... <outcome>")
IsTestLine(trimmed, outcome) ==
    /\ trimmed # <<>>
    /\ Head(trimmed) \in {"test ", "test result"}
    /\ trimmed[Len(trimmed)] = outcome

\* The first loop: one count per per-test line, a failure per FAILED line
RECURSIVE TestLinesLoop(_, _)
TestLinesLoop(ls, acc) ==
    IF ls = <<>> THEN acc
    ELSE LET trimmed == trim(Head(ls))
         IN  TestLinesLoop(Tail(ls),
                 IF IsTestLine(trimmed, " ... ok") THEN [acc EXCEPT !.passed = @ + 1]
                 ELSE IF IsTestLine(trimmed, " ... FAILED")
                 THEN [acc EXCEPT !.failed = @ + 1,
                                  !.failures = Append(@, SubSeq(trimmed, 2, Len(trimmed) - 1))]
                 ELSE IF IsTestLine(trimmed, " ... ignored") THEN [acc EXCEPT !.ignored = @ + 1]
                 ELSE acc)

\* trimmed.starts_with("test result:")
IsSummaryLine(trimmed) ==
    Len(trimmed) >= 2 /\ trimmed[1] = "test result" /\ trimmed[2] = ":"

\* Mutant of SummaryStep: the counts of the per-test lines are kept
SummaryStep_NoReset(acc, trimmed) ==
    IF IsSummaryLine(trimmed) /\ IsSome(parse_summary_line(trimmed))
    THEN LET counts == Unwrap(parse_summary_line(trimmed))
         IN  [acc EXCEPT !.passed = @ + counts[1], !.failed = @ + counts[2],
                         !.ignored = @ + counts[3], !.found_summary = TRUE]
    ELSE acc

\* The body of the second loop
SummaryStep(acc, trimmed) ==
    IF IsSummaryLine(trimmed) /\ IsSome(parse_summary_line(trimmed))
    THEN LET counts == Unwrap(parse_summary_line(trimmed))
             base == IF ~acc.found_summary
                     THEN [acc EXCEPT !.passed = 0, !.failed = 0, !.ignored = 0,
                                      !.found_summary = TRUE]
                     ELSE acc
         IN  [base EXCEPT !.passed = @ + counts[1], !.failed = @ + counts[2],
                          !.ignored = @ + counts[3]]
    ELSE acc

RECURSIVE SummaryLoop(_, _)
SummaryLoop(ls, acc) ==
    IF ls = <<>> THEN acc
    ELSE SummaryLoop(Tail(ls), SummaryStep(acc, trim(Head(ls))))

\* parse_test_output(output, duration_ms): the counts and the names of the
\* failures (the third loop only fills in the messages of the failures)
parse_test_output(output) ==
    LET first == TestLinesLoop(lines(output),
                     [ passed |-> 0, failed |-> 0, ignored |-> 0,
                       failures |-> <<>>, found_summary |-> FALSE ])
        second == SummaryLoop(lines(output), first)
    IN  [ passed |-> second.passed, failed |-> second.failed,
          ignored |-> second.ignored, failures |-> second.failures ]

\* What cargo test prints: a line per test and a summary per test binary
TestLine(name, outcome) == <<"test ", name, outcome>>

SummaryLine(status, p, f, i) ==
    <<"test result", ":", SP, status, ".", SP>> \o FormatU64(p) \o <<SP, "passed", ";", SP>>
        \o FormatU64(f) \o <<SP, "failed", ";", SP>>
        \o FormatU64(i) \o <<SP, "ignored", ";", SP, "0", SP, "measured", ";", SP, "0",
                             SP, "filtered out", ";", SP, "finished in ", "0", ".", "00s">>

\* The lines of an output: what each one is and how it is printed
OutputLines ==
    { [kind |-> "other", text |-> <<>>],
      [kind |-> "other", text |-> <<"running 3 tests">>],
      [kind |-> "ok", text |-> TestLine("tests::one", " ... ok")],
      [kind |-> "ok", text |-> <<SP, SP>> \o TestLine("src/lib.rs - add (line 3)", " ... ok")],
      [kind |-> "FAILED", text |-> TestLine("tests::two", " ... FAILED")],
      [kind |-> "ignored", text |-> TestLine("tests::three", " ... ignored")],
      [kind |-> "summary", passed |-> 2, failed |-> 0, ignored |-> 1,
       text |-> SummaryLine("ok", 2, 0, 1)],
      [kind |-> "summary", passed |-> 12, failed |-> 1, ignored |-> 0,
       text |-> <<SP>> \o SummaryLine("FAILED", 12, 1, 0)],
      [kind |-> "summary", passed |-> 1, failed |-> 0, ignored |-> 0,
       text |-> <<"test result", ":", SP, "ok", ".", SP, "1", SP, "passed">>],
      [kind |-> "summary", passed |-> 0, failed |-> 0, ignored |-> 0,
       text |-> <<"test result", ":", SP, "interrupted">>] }

\* The text of the output that a sequence of lines makes up
RECURSIVE Render(_)
Render(script) ==
    IF script = <<>> THEN <<>>
    ELSE Head(script).text \o <<NL>> \o Render(Tail(script))

ParseInit ==
    /\ EngineIdle
    /\ NoComparison
    /\ call \in { [fn |-> "parse_test_output", script |-> sc, output |-> Render(sc)] :
                    sc \in UNION { [1..n -> OutputLines] : n \in 0..MaxOutputLines } }
    /\ ret = None
    /\ sandbox = None
    /\ cli = None

\* parse_test_output(&combined, duration_ms) returns
Parse ==
    /\ call # None
    /\ call.fn = "parse_test_output"
    /\ ret = None
    /\ ret' = Some(parse_test_output(call.output))
    /\ UNCHANGED <<call, sandbox, cli>>
    /\ UNCHANGED compare_vars
    /\ UNCHANGED engine_vars

ParseSpec == ParseInit /\ [][Parse]_vars

ParseReturned == call # None /\ call.fn = "parse_test_output" /\ ret # None

\* The lines of the script of the given kind
LinesOfKind(kind) == SelectSeq(call.script, LAMBDA l : l.kind = kind)

RECURSIVE SumField(_, _)
SumField(q, field) == IF q = <<>> THEN 0 ELSE Head(q)[field] + SumField(Tail(q), field)

\* C35: when the output has a summary line, passed / failed / ignored are
\* the sums of the counts of all its summary lines, whatever its per-test
\* lines; when it has none, they are the numbers of its per-test lines ending
\* in ok / FAILED / ignored.
C35_CumulativeCounts ==
    ParseReturned =>
        LET r == Unwrap(ret)
            summaries == LinesOfKind("summary")
        IN  IF summaries # <<>>
            THEN /\ r.passed = SumField(summaries, "passed")
                 /\ r.failed = SumField(summaries, "failed")
                 /\ r.ignored = SumField(summaries, "ignored")
            ELSE /\ r.passed = Len(LinesOfKind("ok"))
                 /\ r.failed = Len(LinesOfKind("FAILED"))
                 /\ r.ignored = Len(LinesOfKind("ignored"))

\* C35 witness: an output with per-test lines and the summaries of two test
\* binaries, parsed to the sum of the two summaries, which differs from the
\* number of its per-test lines.
C35_Witness ==
    /\ ParseReturned
    /\ Len(LinesOfKind("summary")) = 2
    /\ LinesOfKind("ok") # <<>>
    /\ Unwrap(ret).passed = 14
    /\ Unwrap(ret).failed = 1
    /\ Unwrap(ret).ignored = 1

----------------------------------------------------------------------------
(* resolve_env_vars (providers config.rs 136-153), one iteration of its    *)
(* while loop at a time.  A string is a sequence of characters; the names  *)
(* of variables are the characters "A" and "B".  The call record holds the *)
(* arguments, the process environment, the local `result` and whether the  *)
(* number of iterations made so far is odd (an iteration that leaves       *)
(* `result` as it was is still a step of the loop).                        *)

\* The least element of a non-empty set of indices, as str::find returns it
FirstOf(hits) ==
    IF hits = {} THEN None ELSE Some(CHOOSE i \in hits : \A j \in hits : i <= j)

\* result.find("${")
find_open(s) ==
    FirstOf({ i \in 1..Len(s) : s[i] = "$" /\ i < Len(s) /\ s[i + 1] = "{" })

\* result[start..].find('}'), as an index of result
find_close(s, start) == FirstOf({ i \in start..Len(s) : s[i] = "}" })

\* std::env::var(var_name).unwrap_or_default()
env_var(env, var_name) == IF var_name \in DOMAIN env THEN env[var_name] ELSE <<>>

\* The body of the loop: the first reference is replaced by its value
substitute(s, env, start, end) ==
    SubSeq(s, 1, start - 1) \o env_var(env, SubSeq(s, start + 2, end - 1))
        \o SubSeq(s, end + 1, Len(s))

ResolveInputs ==
    { <<>>, <<"x">>, <<"$", "{", "A", "}">>, <<"x", "$", "{", "A", "}", "x">>,
      <<"$", "{", "U", "}">>, <<"$", "{", "A", "}", "$", "{", "B", "}">>,
      <<"$", "{", "A">>, <<"$", "$", "{", "B", "}">>, <<"$", "{", "}">>,
      <<"$", "{", "A", "$", "{", "B", "}", "}">>, <<"}", "$", "{", "A", "}">>,
      <<"{", "A", "}", "$">> }

\* The values a variable can have; a value can hold a reference itself
EnvValues ==
    { <<"v">>, <<>>, <<"$", "{", "A", "}">>, <<"$", "{", "B", "}">>,
      <<"{", "A", "}">> }

\* The process environments: A and B are set or not
Environments ==
    UNION { [names -> EnvValues] : names \in SUBSET { <<"A">>, <<"B">> } }

ResolveInit ==
    /\ EngineIdle
    /\ NoComparison
    /\ call \in { [fn |-> "resolve_env_vars", s |-> s, env |-> env,
                   result |-> s, odd |-> FALSE, pc |-> "loop"] :
                    s \in ResolveInputs, env \in Environments }
    /\ ret = None
    /\ sandbox = None
    /\ cli = None

\* An iteration of `while let Some(start) = result.find("${")` that finds
\* the closing brace
ResolveLoop ==
    /\ call # None /\ call.fn = "resolve_env_vars" /\ call.pc = "loop"
    /\ IsSome(find_open(call.result))
    /\ LET start == Unwrap(find_open(call.result))
           end == find_close(call.result, start)
       IN  /\ IsSome(end)
           /\ call' = [call EXCEPT !.result = substitute(@, call.env, start, Unwrap(end)),
                                   !.odd = ~@]
    /\ UNCHANGED <<ret, sandbox, cli>>
    /\ UNCHANGED compare_vars
    /\ UNCHANGED engine_vars

\* The loop ends (no "${" left, or `break` for want of a closing brace) and
\* result is returned
ResolveReturns ==
    /\ call # None /\ call.fn = "resolve_env_vars" /\ call.pc = "loop"
    /\ IF IsSome(find_open(call.result))
       THEN find_close(call.result, Unwrap(find_open(call.result))) = None
       ELSE TRUE
    /\ ret' = Some(call.result)
    /\ call' = [call EXCEPT !.pc = "returned"]
    /\ UNCHANGED <<sandbox, cli>>
    /\ UNCHANGED compare_vars
    /\ UNCHANGED engine_vars

ResolveNext == ResolveLoop \/ ResolveReturns

\* The loop body runs without awaiting anything: an iteration that can be
\* made is made
ResolveSpec == ResolveInit /\ [][ResolveNext]_vars /\ WF_vars(ResolveNext)

Resolving == call # None /\ call.fn = "resolve_env_vars" /\ call.pc = "loop"
ResolveReturned == call # None /\ call.fn = "resolve_env_vars" /\ call.pc = "returned"

\* s holds a reference: "${", then a closing brace somewhere after it
HasClosedRef(s) ==
    \E i \in 1..Len(s) :
        /\ s[i] = "$" /\ i < Len(s) /\ s[i + 1] = "{"
        /\ \E j \in (i + 2)..Len(s) : s[j] = "}"

\* C40 as stated: resolve_env_vars returns for every string and every
\* environment, also when the value of a variable holds a reference to
\* itself or to another variable; what it returns holds no reference with a
\* closing brace; a reference to an undefined variable is replaced by the
\* empty string.
C40_ResolveTerminates ==
    /\ Resolving ~> ResolveReturned
    /\ [](ResolveReturned => ~HasClosedRef(Unwrap(ret)))
    /\ []((ResolveReturned /\ call.s = <<"$", "{", "U", "}">>) => Unwrap(ret) = <<>>)

----------------------------------------------------------------------------
(* The comparison made the other way round                                 *)

\* baseline.compare(&current, threshold), for each order its loop can take
ReverseComparisons ==
    { compare(baseline, current, threshold, order) :
        order \in Orders(DOMAIN score_map(baseline)) }

\* Every entry of q has its mirror image in p: the same pair, the two scores
\* exchanged and the delta negated
Mirrored(q, p) ==
    \A i \in DOMAIN q :
        \E j \in DOMAIN p :
            /\ p[j].case_id = q[i].case_id
            /\ p[j].model = q[i].model
            /\ p[j].baseline_score = q[i].current_score
            /\ p[j].current_score = q[i].baseline_score
            /\ p[j].delta = 0 - q[i].delta

\* C39: for a threshold >= 0, the regressions of current.compare(baseline)
\* are the improvements of baseline.compare(current), pair for pair with the
\* delta negated, and its improvements are the regressions of the other;
\* the two unchanged counts are equal; new_cases of each is removed_cases of
\* the other.
C39_CompareAntisymmetric ==
    (Compared /\ threshold >= 0) =>
        \A rev \in ReverseComparisons :
            /\ EntryKeys(ComparisonResult.regressions) = EntryKeys(rev.improvements)
            /\ Mirrored(ComparisonResult.regressions, rev.improvements)
            /\ EntryKeys(ComparisonResult.improvements) = EntryKeys(rev.regressions)
            /\ Mirrored(ComparisonResult.improvements, rev.regressions)
            /\ ComparisonResult.unchanged = rev.unchanged
            /\ ComparisonResult.new_cases = rev.removed_cases
            /\ ComparisonResult.removed_cases = rev.new_cases

\* C39 witness: a comparison with one regression whose delta is beyond the
\* threshold of 0.25, one new pair and one removed pair.
C39_Witness ==
    /\ Compared
    /\ threshold = 250
    /\ Len(ComparisonResult.regressions) = 1
    /\ ComparisonResult.regressions[1].delta < 0 - 250
    /\ ComparisonResult.new_cases = 1
    /\ ComparisonResult.removed_cases = 1

====
